---- MODULE Spec2Model ----
(***************************************************************************)
(* A model of the Student Management System CLI (src/student_manager.py,   *)
(* src/validation.py, src/student.py).                                     *)
(*                                                                         *)
(* The program is an interactive loop reading lines from standard input.   *)
(* A step of the model is one input() call returning a line (or raising    *)
(* EOFError) together with all the code that runs up to the next input()   *)
(* call.  pc names the prompt the program is blocked on; loc holds the     *)
(* local variables of the handler that is running.                         *)
(*                                                                         *)
(* Text is a TLA+ string: Len, SubSeq and \o give its characters.          *)
(* A Python value is a record [t, n, d, s]: t is "str", "int" or "float";  *)
(* a str is s; an int (never negative here, and of any size) is its        *)
(* decimal text s without leading zeros; a float is n / 10^d (d decimals,  *)
(* no trailing zero).  A Python dict is [keys |-> insertion order,         *)
(* val |-> mapping].                                                       *)
(***************************************************************************)
EXTENDS Integers, Sequences, FiniteSets, TLC

VARIABLES
    columns,        \* StudentManager.columns: list of column names
    column_types,   \* StudentManager.column_types: dict name -> type text
    students,       \* StudentManager.students: list of Student.data dicts
    fs,             \* the files and directories there are, by path
    file,           \* the backing file: what there is at file_path in fs
    pc,             \* the prompt the run loop or a handler waits at
    loc,            \* locals of the running handler
    line,           \* the line the last input() call returned
    msg,            \* the last outcome the program reported
    nsaves,         \* _save_data calls made by the operation in progress
    nops,           \* operations dispatched from the menu so far
    nschema,        \* column operations dispatched from the menu so far
    running,        \* the run loop has not ended
    mode,           \* which lines the input source offers (fixed by Init)
    roll_column,    \* history: the name the roll-number column now has ("" when none)
    file_path       \* StudentManager.file_path (default_file_path while main() runs)

vars == <<columns, column_types, students, fs, file, pc, loc, line, msg,
          nsaves, nops, nschema, running, mode, roll_column, file_path>>

----------------------------------------------------------------------------
(* Bounds of the exploration *)

MaxStudents == 2
MaxOps == 4
MaxPathOps == 3     \* operations of a run that changes the path
MaxSchemaOps == 2
MaxCustom == 1

----------------------------------------------------------------------------
(* Python text primitives.  A text is held as its UTF-8 encoding, one     *)
(* TLA+ character for each byte: a character of the Python str is one      *)
(* byte below 128 or a sequence of two to four bytes from 128 up.  Len,    *)
(* SubSeq and \o work on the bytes; PyChars gives the characters.          *)

Digits == {"0", "1", "2", "3", "4", "5", "6", "7", "8", "9"}
LowerLetters == "abcdefghijklmnopqrstuvwxyz"
UpperLetters == "ABCDEFGHIJKLMNOPQRSTUVWXYZ"

Char(s, i) == SubSeq(s, i, i)
CharsOf(s) == {Char(s, i) : i \in 1..Len(s)}
Rest(s) == SubSeq(s, 2, Len(s))
Front(s) == SubSeq(s, 1, Len(s) - 1)

LowerSet == CharsOf(LowerLetters)
UpperSet == CharsOf(UpperLetters)
ToLower == [c \in UpperSet |->
              Char(LowerLetters, CHOOSE i \in 1..Len(UpperLetters) : Char(UpperLetters, i) = c)]

(* the bytes 128..255, in order *)
HighBytes == " ¡¢£¤¥¦§¨©ª«¬­®¯°±²³´µ¶·¸¹º»¼½¾¿ÀÁÂÃÄÅÆÇÈÉÊËÌÍÎÏÐÑÒÓÔÕÖ×ØÙÚÛÜÝÞßàáâãäåæçèéêëìíîïðñòóôõö÷øùúûüýþÿ"
ByteOrd == [c \in CharsOf(HighBytes) |->
              127 + CHOOSE i \in 1..Len(HighBytes) : Char(HighBytes, i) = c]
Byte(o) == Char(HighBytes, o - 127)
(* the byte c as a number when it is 128 or more, else 0 *)
OrdOfByte(c) == LET At(ord) == IF c \in DOMAIN ord THEN ord[c] ELSE 0 IN At(ByteOrd)
IsHighByte(c) == OrdOfByte(c) > 0
IsContinuation(c) == OrdOfByte(c) \in 128..191

(* the number of bytes of the character whose first byte is c *)
Utf8Len(c) ==
    LET Of(o) == IF o >= 240 THEN 4 ELSE IF o >= 224 THEN 3 ELSE IF o >= 192 THEN 2 ELSE 1
    IN  Of(OrdOfByte(c))

(* the end of the character that starts at byte i of s *)
CharEnd(s, i) ==
    LET Least(a, b) == IF a < b THEN a ELSE b
        Ends(last) == IF \A j \in (i + 1)..last : IsContinuation(Char(s, j)) THEN last ELSE i
    IN  Ends(Least(Len(s), i + Utf8Len(Char(s, i)) - 1))

IsAscii(s) == \A i \in 1..Len(s) : ~IsHighByte(Char(s, i))

(* a place near the middle of s where one character ends and the next      *)
(* starts (a long text is taken apart by halves)                           *)
CutNear(s) ==
    LET Pick(cuts) == IF cuts = {} THEN CharEnd(s, 1) ELSE CHOOSE c \in cuts : TRUE
    IN  Pick({c \in (Len(s) \div 2 - 3)..(Len(s) \div 2 + 3) :
                c >= 1 /\ c < Len(s) /\ ~IsContinuation(Char(s, c + 1))})

(* list(s): the characters of s, each as the text of its bytes *)
RECURSIVE PyChars(_)
PyChars(s) ==
    IF IsAscii(s) THEN [i \in 1..Len(s) |-> Char(s, i)]
    ELSE LET Halves(c) ==
                 IF c >= Len(s) THEN <<s>>
                 ELSE PyChars(SubSeq(s, 1, c)) \o PyChars(SubSeq(s, c + 1, Len(s)))
         IN  Halves(CutNear(s))

(* len(s) *)
PyLen(s) == Len(PyChars(s))

(* ''.join(cs) *)
RECURSIVE Join(_)
Join(cs) ==
    IF cs = <<>> THEN ""
    ELSE IF Len(cs) = 1 THEN cs[1]
    ELSE LET h == Len(cs) \div 2 IN Join(SubSeq(cs, 1, h)) \o Join(SubSeq(cs, h + 1, Len(cs)))

(* ord(c) of a character from 128 up; 0 for a character below 128 *)
HighOrd(c) ==
    LET Of(b) ==
            CASE Len(b) = 2 -> (b[1] - 192) * 64 + (b[2] - 128)
              [] Len(b) = 3 -> (b[1] - 224) * 4096 + (b[2] - 128) * 64 + (b[3] - 128)
              [] Len(b) = 4 -> (b[1] - 240) * 262144 + (b[2] - 128) * 4096
                               + (b[3] - 128) * 64 + (b[4] - 128)
              [] OTHER -> 0
    IN  Of([i \in 1..Len(c) |-> OrdOfByte(Char(c, i))])

(* chr(cp) for cp from 128 up *)
Chr(cp) ==
    IF cp < 2048 THEN Byte(192 + (cp \div 64)) \o Byte(128 + (cp % 64))
    ELSE IF cp < 65536
    THEN Byte(224 + (cp \div 4096)) \o Byte(128 + ((cp \div 64) % 64)) \o Byte(128 + (cp % 64))
    ELSE Byte(240 + (cp \div 262144)) \o Byte(128 + ((cp \div 4096) % 64))
         \o Byte(128 + ((cp \div 64) % 64)) \o Byte(128 + (cp % 64))

Range(sq) == {sq[i] : i \in 1..Len(sq)}
InRanges(cp, rs) == \E r \in rs : r[1] <= cp /\ cp <= r[2]

(* The tables of code points are written as text, six digits to a number:  *)
(* TableRows gives the rows of width numbers each.                         *)
DigitValue == [c \in Digits |-> CHOOSE v \in 0..9 : ToString(v) = c]
TableNumber(t, k) ==
    LET Of(d) == d[1] * 100000 + d[2] * 10000 + d[3] * 1000 + d[4] * 100 + d[5] * 10 + d[6]
    IN  Of([i \in 1..6 |-> DigitValue[Char(t, 6 * (k - 1) + i)]])
TableRows(t, width) ==
    {[j \in 1..width |-> TableNumber(t, (k - 1) * width + j)] :
        k \in 1..(Len(t) \div (6 * width))}

(* the code points from 128 up that str.isspace holds of *)
UnicodeSpaces ==
    {133, 160, 5760, 8192, 8193, 8194, 8195, 8196, 8197, 8198, 8199, 8200,
     8201, 8202, 8232, 8233, 8239, 8287, 12288}

(* the ranges of code points from 128 up that str.isdigit holds of *)
DigitRanges ==
    TableRows(
        "000178000179000185000185001632001641001776001785001984001993002406002415002534002543002662002671002790002799002918002927" \o
        "003046003055003174003183003302003311003430003439003558003567003664003673003792003801003872003881004160004169004240004249" \o
        "004969004977006112006121006160006169006470006479006608006618006784006793006800006809006992007001007088007097007232007241" \o
        "007248007257008304008304008308008313008320008329009312009320009332009340009352009360009450009450009461009469009471009471" \o
        "010102010110010112010120010122010130042528042537043216043225043264043273043472043481043504043513043600043609044016044025" \o
        "065296065305066720066729068160068163068912068921069216069224069714069722069734069743069872069881069942069951070096070105" \o
        "070384070393070736070745070864070873071248071257071360071369071472071481071904071913072016072025072784072793073040073049" \o
        "073120073129092768092777092864092873093008093017120782120831123200123209123632123641125264125273127232127242130032130041", 2)

(* those of str.isdecimal: runs of ten digits 0..9, which int() and float() read *)
DecimalRanges ==
    TableRows(
        "001632001641001776001785001984001993002406002415002534002543002662002671002790002799002918002927003046003055003174003183" \o
        "003302003311003430003439003558003567003664003673003792003801003872003881004160004169004240004249006112006121006160006169" \o
        "006470006479006608006617006784006793006800006809006992007001007088007097007232007241007248007257042528042537043216043225" \o
        "043264043273043472043481043504043513043600043609044016044025065296065305066720066729068912068921069734069743069872069881" \o
        "069942069951070096070105070384070393070736070745070864070873071248071257071360071369071472071481071904071913072016072025" \o
        "072784072793073040073049073120073129092768092777092864092873093008093017120782120831123200123209123632123641125264125273" \o
        "130032130041", 2)

(* those of str.isalpha *)
AlphaRanges ==
    TableRows(
        "000170000170000181000181000186000186000192000214000216000246000248000705000710000721000736000740000748000748000750000750" \o
        "000880000884000886000887000890000893000895000895000902000902000904000906000908000908000910000929000931001013001015001153" \o
        "001162001327001329001366001369001369001376001416001488001514001519001522001568001610001646001647001649001747001749001749" \o
        "001765001766001774001775001786001788001791001791001808001808001810001839001869001957001969001969001994002026002036002037" \o
        "002042002042002048002069002074002074002084002084002088002088002112002136002144002154002160002183002185002190002208002249" \o
        "002308002361002365002365002384002384002392002401002417002432002437002444002447002448002451002472002474002480002482002482" \o
        "002486002489002493002493002510002510002524002525002527002529002544002545002556002556002565002570002575002576002579002600" \o
        "002602002608002610002611002613002614002616002617002649002652002654002654002674002676002693002701002703002705002707002728" \o
        "002730002736002738002739002741002745002749002749002768002768002784002785002809002809002821002828002831002832002835002856" \o
        "002858002864002866002867002869002873002877002877002908002909002911002913002929002929002947002947002949002954002958002960" \o
        "002962002965002969002970002972002972002974002975002979002980002984002986002990003001003024003024003077003084003086003088" \o
        "003090003112003114003129003133003133003160003162003165003165003168003169003200003200003205003212003214003216003218003240" \o
        "003242003251003253003257003261003261003293003294003296003297003313003314003332003340003342003344003346003386003389003389" \o
        "003406003406003412003414003423003425003450003455003461003478003482003505003507003515003517003517003520003526003585003632" \o
        "003634003635003648003654003713003714003716003716003718003722003724003747003749003749003751003760003762003763003773003773" \o
        "003776003780003782003782003804003807003840003840003904003911003913003948003976003980004096004138004159004159004176004181" \o
        "004186004189004193004193004197004198004206004208004213004225004238004238004256004293004295004295004301004301004304004346" \o
        "004348004680004682004685004688004694004696004696004698004701004704004744004746004749004752004784004786004789004792004798" \o
        "004800004800004802004805004808004822004824004880004882004885004888004954004992005007005024005109005112005117005121005740" \o
        "005743005759005761005786005792005866005873005880005888005905005919005937005952005969005984005996005998006000006016006067" \o
        "006103006103006108006108006176006264006272006276006279006312006314006314006320006389006400006430006480006509006512006516" \o
        "006528006571006576006601006656006678006688006740006823006823006917006963006981006988007043007072007086007087007098007141" \o
        "007168007203007245007247007258007293007296007304007312007354007357007359007401007404007406007411007413007414007418007418" \o
        "007424007615007680007957007960007965007968008005008008008013008016008023008025008025008027008027008029008029008031008061" \o
        "008064008116008118008124008126008126008130008132008134008140008144008147008150008155008160008172008178008180008182008188" \o
        "008305008305008319008319008336008348008450008450008455008455008458008467008469008469008473008477008484008484008486008486" \o
        "008488008488008490008493008495008505008508008511008517008521008526008526008579008580011264011492011499011502011506011507" \o
        "011520011557011559011559011565011565011568011623011631011631011648011670011680011686011688011694011696011702011704011710" \o
        "011712011718011720011726011728011734011736011742011823011823012293012294012337012341012347012348012353012438012445012447" \o
        "012449012538012540012543012549012591012593012686012704012735012784012799013312019903019968042124042192042237042240042508" \o
        "042512042527042538042539042560042606042623042653042656042725042775042783042786042888042891042954042960042961042963042963" \o
        "042965042969042994043009043011043013043015043018043020043042043072043123043138043187043250043255043259043259043261043262" \o
        "043274043301043312043334043360043388043396043442043471043471043488043492043494043503043514043518043520043560043584043586" \o
        "043588043595043616043638043642043642043646043695043697043697043701043702043705043709043712043712043714043714043739043741" \o
        "043744043754043762043764043777043782043785043790043793043798043808043814043816043822043824043866043868043881043888044002" \o
        "044032055203055216055238055243055291063744064109064112064217064256064262064275064279064285064285064287064296064298064310" \o
        "064312064316064318064318064320064321064323064324064326064433064467064829064848064911064914064967065008065019065136065140" \o
        "065142065276065313065338065345065370065382065470065474065479065482065487065490065495065498065500065536065547065549065574" \o
        "065576065594065596065597065599065613065616065629065664065786066176066204066208066256066304066335066349066368066370066377" \o
        "066384066421066432066461066464066499066504066511066560066717066736066771066776066811066816066855066864066915066928066938" \o
        "066940066954066956066962066964066965066967066977066979066993066995067001067003067004067072067382067392067413067424067431" \o
        "067456067461067463067504067506067514067584067589067592067592067594067637067639067640067644067644067647067669067680067702" \o
        "067712067742067808067826067828067829067840067861067872067897067968068023068030068031068096068096068112068115068117068119" \o
        "068121068149068192068220068224068252068288068295068297068324068352068405068416068437068448068466068480068497068608068680" \o
        "068736068786068800068850068864068899069248069289069296069297069376069404069415069415069424069445069488069505069552069572" \o
        "069600069622069635069687069745069746069749069749069763069807069840069864069891069926069956069956069959069959069968070002" \o
        "070006070006070019070066070081070084070106070106070108070108070144070161070163070187070272070278070280070280070282070285" \o
        "070287070301070303070312070320070366070405070412070415070416070419070440070442070448070450070451070453070457070461070461" \o
        "070480070480070493070497070656070708070727070730070751070753070784070831070852070853070855070855071040071086071128071131" \o
        "071168071215071236071236071296071338071352071352071424071450071488071494071680071723071840071903071935071942071945071945" \o
        "071948071955071957071958071960071983071999071999072001072001072096072103072106072144072161072161072163072163072192072192" \o
        "072203072242072250072250072272072272072284072329072349072349072368072440072704072712072714072750072768072768072818072847" \o
        "072960072966072968072969072971073008073030073030073056073061073063073064073066073097073112073112073440073458073648073648" \o
        "073728074649074880075075077712077808077824078894082944083526092160092728092736092766092784092862092880092909092928092975" \o
        "092992092995093027093047093053093071093760093823093952094026094032094032094099094111094176094177094179094179094208100343" \o
        "100352101589101632101640110576110579110581110587110589110590110592110882110928110930110948110951110960111355113664113770" \o
        "113776113788113792113800113808113817119808119892119894119964119966119967119970119970119973119974119977119980119982119993" \o
        "119995119995119997120003120005120069120071120074120077120084120086120092120094120121120123120126120128120132120134120134" \o
        "120138120144120146120485120488120512120514120538120540120570120572120596120598120628120630120654120656120686120688120712" \o
        "120714120744120746120770120772120779122624122654123136123180123191123197123214123214123536123565123584123627124896124902" \o
        "124904124907124909124910124912124926124928125124125184125251125259125259126464126467126469126495126497126498126500126500" \o
        "126503126503126505126514126516126519126521126521126523126523126530126530126535126535126537126537126539126539126541126543" \o
        "126545126546126548126548126551126551126553126553126555126555126557126557126559126559126561126562126564126564126567126570" \o
        "126572126578126580126583126585126588126590126590126592126601126603126619126625126627126629126633126635126651131072173791" \o
        "173824177976177984178205178208183969183984191456194560195101196608201546", 2)

(* those of str.isalnum *)
AlnumRanges ==
    TableRows(
        "000170000170000178000179000181000181000185000186000188000190000192000214000216000246000248000705000710000721000736000740" \o
        "000748000748000750000750000880000884000886000887000890000893000895000895000902000902000904000906000908000908000910000929" \o
        "000931001013001015001153001162001327001329001366001369001369001376001416001488001514001519001522001568001610001632001641" \o
        "001646001647001649001747001749001749001765001766001774001788001791001791001808001808001810001839001869001957001969001969" \o
        "001984002026002036002037002042002042002048002069002074002074002084002084002088002088002112002136002144002154002160002183" \o
        "002185002190002208002249002308002361002365002365002384002384002392002401002406002415002417002432002437002444002447002448" \o
        "002451002472002474002480002482002482002486002489002493002493002510002510002524002525002527002529002534002545002548002553" \o
        "002556002556002565002570002575002576002579002600002602002608002610002611002613002614002616002617002649002652002654002654" \o
        "002662002671002674002676002693002701002703002705002707002728002730002736002738002739002741002745002749002749002768002768" \o
        "002784002785002790002799002809002809002821002828002831002832002835002856002858002864002866002867002869002873002877002877" \o
        "002908002909002911002913002918002927002929002935002947002947002949002954002958002960002962002965002969002970002972002972" \o
        "002974002975002979002980002984002986002990003001003024003024003046003058003077003084003086003088003090003112003114003129" \o
        "003133003133003160003162003165003165003168003169003174003183003192003198003200003200003205003212003214003216003218003240" \o
        "003242003251003253003257003261003261003293003294003296003297003302003311003313003314003332003340003342003344003346003386" \o
        "003389003389003406003406003412003414003416003425003430003448003450003455003461003478003482003505003507003515003517003517" \o
        "003520003526003558003567003585003632003634003635003648003654003664003673003713003714003716003716003718003722003724003747" \o
        "003749003749003751003760003762003763003773003773003776003780003782003782003792003801003804003807003840003840003872003891" \o
        "003904003911003913003948003976003980004096004138004159004169004176004181004186004189004193004193004197004198004206004208" \o
        "004213004225004238004238004240004249004256004293004295004295004301004301004304004346004348004680004682004685004688004694" \o
        "004696004696004698004701004704004744004746004749004752004784004786004789004792004798004800004800004802004805004808004822" \o
        "004824004880004882004885004888004954004969004988004992005007005024005109005112005117005121005740005743005759005761005786" \o
        "005792005866005870005880005888005905005919005937005952005969005984005996005998006000006016006067006103006103006108006108" \o
        "006112006121006128006137006160006169006176006264006272006276006279006312006314006314006320006389006400006430006470006509" \o
        "006512006516006528006571006576006601006608006618006656006678006688006740006784006793006800006809006823006823006917006963" \o
        "006981006988006992007001007043007072007086007141007168007203007232007241007245007293007296007304007312007354007357007359" \o
        "007401007404007406007411007413007414007418007418007424007615007680007957007960007965007968008005008008008013008016008023" \o
        "008025008025008027008027008029008029008031008061008064008116008118008124008126008126008130008132008134008140008144008147" \o
        "008150008155008160008172008178008180008182008188008304008305008308008313008319008329008336008348008450008450008455008455" \o
        "008458008467008469008469008473008477008484008484008486008486008488008488008490008493008495008505008508008511008517008521" \o
        "008526008526008528008585009312009371009450009471010102010131011264011492011499011502011506011507011517011517011520011557" \o
        "011559011559011565011565011568011623011631011631011648011670011680011686011688011694011696011702011704011710011712011718" \o
        "011720011726011728011734011736011742011823011823012293012295012321012329012337012341012344012348012353012438012445012447" \o
        "012449012538012540012543012549012591012593012686012690012693012704012735012784012799012832012841012872012879012881012895" \o
        "012928012937012977012991013312019903019968042124042192042237042240042508042512042539042560042606042623042653042656042735" \o
        "042775042783042786042888042891042954042960042961042963042963042965042969042994043009043011043013043015043018043020043042" \o
        "043056043061043072043123043138043187043216043225043250043255043259043259043261043262043264043301043312043334043360043388" \o
        "043396043442043471043481043488043492043494043518043520043560043584043586043588043595043600043609043616043638043642043642" \o
        "043646043695043697043697043701043702043705043709043712043712043714043714043739043741043744043754043762043764043777043782" \o
        "043785043790043793043798043808043814043816043822043824043866043868043881043888044002044016044025044032055203055216055238" \o
        "055243055291063744064109064112064217064256064262064275064279064285064285064287064296064298064310064312064316064318064318" \o
        "064320064321064323064324064326064433064467064829064848064911064914064967065008065019065136065140065142065276065296065305" \o
        "065313065338065345065370065382065470065474065479065482065487065490065495065498065500065536065547065549065574065576065594" \o
        "065596065597065599065613065616065629065664065786065799065843065856065912065930065931066176066204066208066256066273066299" \o
        "066304066339066349066378066384066421066432066461066464066499066504066511066513066517066560066717066720066729066736066771" \o
        "066776066811066816066855066864066915066928066938066940066954066956066962066964066965066967066977066979066993066995067001" \o
        "067003067004067072067382067392067413067424067431067456067461067463067504067506067514067584067589067592067592067594067637" \o
        "067639067640067644067644067647067669067672067702067705067742067751067759067808067826067828067829067835067867067872067897" \o
        "067968068023068028068047068050068096068112068115068117068119068121068149068160068168068192068222068224068255068288068295" \o
        "068297068324068331068335068352068405068416068437068440068466068472068497068521068527068608068680068736068786068800068850" \o
        "068858068899068912068921069216069246069248069289069296069297069376069415069424069445069457069460069488069505069552069579" \o
        "069600069622069635069687069714069743069745069746069749069749069763069807069840069864069872069881069891069926069942069951" \o
        "069956069956069959069959069968070002070006070006070019070066070081070084070096070106070108070108070113070132070144070161" \o
        "070163070187070272070278070280070280070282070285070287070301070303070312070320070366070384070393070405070412070415070416" \o
        "070419070440070442070448070450070451070453070457070461070461070480070480070493070497070656070708070727070730070736070745" \o
        "070751070753070784070831070852070853070855070855070864070873071040071086071128071131071168071215071236071236071248071257" \o
        "071296071338071352071352071360071369071424071450071472071483071488071494071680071723071840071922071935071942071945071945" \o
        "071948071955071957071958071960071983071999071999072001072001072016072025072096072103072106072144072161072161072163072163" \o
        "072192072192072203072242072250072250072272072272072284072329072349072349072368072440072704072712072714072750072768072768" \o
        "072784072812072818072847072960072966072968072969072971073008073030073030073040073049073056073061073063073064073066073097" \o
        "073112073112073120073129073440073458073648073648073664073684073728074649074752074862074880075075077712077808077824078894" \o
        "082944083526092160092728092736092766092768092777092784092862092864092873092880092909092928092975092992092995093008093017" \o
        "093019093025093027093047093053093071093760093846093952094026094032094032094099094111094176094177094179094179094208100343" \o
        "100352101589101632101640110576110579110581110587110589110590110592110882110928110930110948110951110960111355113664113770" \o
        "113776113788113792113800113808113817119520119539119648119672119808119892119894119964119966119967119970119970119973119974" \o
        "119977119980119982119993119995119995119997120003120005120069120071120074120077120084120086120092120094120121120123120126" \o
        "120128120132120134120134120138120144120146120485120488120512120514120538120540120570120572120596120598120628120630120654" \o
        "120656120686120688120712120714120744120746120770120772120779120782120831122624122654123136123180123191123197123200123209" \o
        "123214123214123536123565123584123627123632123641124896124902124904124907124909124910124912124926124928125124125127125135" \o
        "125184125251125259125259125264125273126065126123126125126127126129126132126209126253126255126269126464126467126469126495" \o
        "126497126498126500126500126503126503126505126514126516126519126521126521126523126523126530126530126535126535126537126537" \o
        "126539126539126541126543126545126546126548126548126551126551126553126553126555126555126557126557126559126559126561126562" \o
        "126564126564126567126570126572126578126580126583126585126588126590126590126592126601126603126619126625126627126629126633" \o
        "126635126651127232127244130032130041131072173791173824177976177984178205178208183969183984191456194560195101196608201546", 2)

(* cased characters that are not case-ignorable (str.lower reads them around a capital sigma) *)
CasedRanges ==
    TableRows(
        "000170000170000181000181000186000186000192000214000216000246000248000442000444000447000452000659000661000687000880000883" \o
        "000886000887000891000893000895000895000902000902000904000906000908000908000910000929000931001013001015001153001162001327" \o
        "001329001366001376001416004256004293004295004295004301004301004304004346004349004351005024005109005112005117007296007304" \o
        "007312007354007357007359007424007467007531007543007545007578007680007957007960007965007968008005008008008013008016008023" \o
        "008025008025008027008027008029008029008031008061008064008116008118008124008126008126008130008132008134008140008144008147" \o
        "008150008155008160008172008178008180008182008188008450008450008455008455008458008467008469008469008473008477008484008484" \o
        "008486008486008488008488008490008493008495008500008505008505008508008511008517008521008526008526008544008575008579008580" \o
        "009398009449011264011387011390011492011499011502011506011507011520011557011559011559011565011565042560042605042624042651" \o
        "042786042863042865042887042891042894042896042954042960042961042963042963042965042969042997042998043002043002043824043866" \o
        "043872043880043888043967064256064262064275064279065313065338065345065370066560066639066736066771066776066811066928066938" \o
        "066940066954066956066962066964066965066967066977066979066993066995067001067003067004068736068786068800068850071840071903" \o
        "093760093823119808119892119894119964119966119967119970119970119973119974119977119980119982119993119995119995119997120003" \o
        "120005120069120071120074120077120084120086120092120094120121120123120126120128120132120134120134120138120144120146120485" \o
        "120488120512120514120538120540120570120572120596120598120628120630120654120656120686120688120712120714120744120746120770" \o
        "120772120779122624122633122635122654125184125251127280127305127312127337127344127369", 2)

(* case-ignorable characters *)
IgnorableRanges ==
    TableRows(
        "000168000168000173000173000175000175000180000180000183000184000688000879000884000885000890000890000900000901000903000903" \o
        "001155001161001369001369001375001375001425001469001471001471001473001474001476001477001479001479001524001524001536001541" \o
        "001552001562001564001564001600001600001611001631001648001648001750001757001759001768001770001773001807001807001809001809" \o
        "001840001866001958001968002027002037002042002042002045002045002070002093002137002139002184002184002192002193002200002207" \o
        "002249002306002362002362002364002364002369002376002381002381002385002391002402002403002417002417002433002433002492002492" \o
        "002497002500002509002509002530002531002558002558002561002562002620002620002625002626002631002632002635002637002641002641" \o
        "002672002673002677002677002689002690002748002748002753002757002759002760002765002765002786002787002810002815002817002817" \o
        "002876002876002879002879002881002884002893002893002901002902002914002915002946002946003008003008003021003021003072003072" \o
        "003076003076003132003132003134003136003142003144003146003149003157003158003170003171003201003201003260003260003263003263" \o
        "003270003270003276003277003298003299003328003329003387003388003393003396003405003405003426003427003457003457003530003530" \o
        "003538003540003542003542003633003633003636003642003654003662003761003761003764003772003782003782003784003789003864003865" \o
        "003893003893003895003895003897003897003953003966003968003972003974003975003981003991003993004028004038004038004141004144" \o
        "004146004151004153004154004157004158004184004185004190004192004209004212004226004226004229004230004237004237004253004253" \o
        "004348004348004957004959005906005908005938005939005970005971006002006003006068006069006071006077006086006086006089006099" \o
        "006103006103006109006109006155006159006211006211006277006278006313006313006432006434006439006440006450006450006457006459" \o
        "006679006680006683006683006742006742006744006750006752006752006754006754006757006764006771006780006783006783006823006823" \o
        "006832006862006912006915006964006964006966006970006972006972006978006978007019007027007040007041007074007077007080007081" \o
        "007083007085007142007142007144007145007149007149007151007153007212007219007222007223007288007293007376007378007380007392" \o
        "007394007400007405007405007412007412007416007417007468007530007544007544007579007679008125008125008127008129008141008143" \o
        "008157008159008173008175008189008190008203008207008216008217008228008228008231008231008234008238008288008292008294008303" \o
        "008305008305008319008319008336008348008400008432011388011389011503011505011631011631011647011647011744011775011823011823" \o
        "012293012293012330012333012337012341012347012347012441012446012540012542040981040981042232042237042508042508042607042610" \o
        "042612042621042623042623042652042655042736042737042752042785042864042864042888042890042994042996043000043001043010043010" \o
        "043014043014043019043019043045043046043052043052043204043205043232043249043263043263043302043309043335043345043392043394" \o
        "043443043443043446043449043452043453043471043471043493043494043561043566043569043570043573043574043587043587043596043596" \o
        "043632043632043644043644043696043696043698043700043703043704043710043711043713043713043741043741043756043757043763043764" \o
        "043766043766043867043871043881043883044005044005044008044008044013044013064286064286064434064450065024065039065043065043" \o
        "065056065071065106065106065109065109065279065279065287065287065294065294065306065306065342065342065344065344065392065392" \o
        "065438065439065507065507065529065531066045066045066272066272066422066426067456067461067463067504067506067514068097068099" \o
        "068101068102068108068111068152068154068159068159068325068326068900068903069291069292069446069456069506069509069633069633" \o
        "069688069702069744069744069747069748069759069761069811069814069817069818069821069821069826069826069837069837069888069890" \o
        "069927069931069933069940070003070003070016070017070070070078070089070092070095070095070191070193070196070196070198070199" \o
        "070206070206070367070367070371070378070400070401070459070460070464070464070502070508070512070516070712070719070722070724" \o
        "070726070726070750070750070835070840070842070842070847070848070850070851071090071093071100071101071103071104071132071133" \o
        "071219071226071229071229071231071232071339071339071341071341071344071349071351071351071453071455071458071461071463071467" \o
        "071727071735071737071738071995071996071998071998072003072003072148072151072154072155072160072160072193072202072243072248" \o
        "072251072254072263072263072273072278072281072283072330072342072344072345072752072758072760072765072767072767072850072871" \o
        "072874072880072882072883072885072886073009073014073018073018073020073021073023073029073031073031073104073105073109073109" \o
        "073111073111073459073460078896078904092912092916092976092982092992092995094031094031094095094111094176094177094179094180" \o
        "110576110579110581110587110589110590113821113822113824113827118528118573118576118598119143119145119155119170119173119179" \o
        "119210119213119362119364121344121398121403121452121461121461121476121476121499121503121505121519122880122886122888122904" \o
        "122907122913122915122916122918122922123184123197123566123566123628123631125136125142125252125259127995127999917505917505" \o
        "917536917631917760917999", 2)

(* str.lower of one character: <<first, last, step, lower>>: the code    *)
(* points first, first + step, ... last; lower is the lower case of first  *)
(* and the others lie as far from it as they do from first                 *)
LowerRuns ==
    TableRows(
        "000192000214000001000224000216000222000001000248000256000302000002000257000306000310000002000307000313000327000002000314" \o
        "000330000374000002000331000376000376000001000255000377000381000002000378000385000385000001000595000386000388000002000387" \o
        "000390000390000001000596000391000391000001000392000393000394000001000598000395000395000001000396000398000398000001000477" \o
        "000399000399000001000601000400000400000001000603000401000401000001000402000403000403000001000608000404000404000001000611" \o
        "000406000406000001000617000407000407000001000616000408000408000001000409000412000412000001000623000413000413000001000626" \o
        "000415000415000001000629000416000420000002000417000422000422000001000640000423000423000001000424000425000425000001000643" \o
        "000428000428000001000429000430000430000001000648000431000431000001000432000433000434000001000650000435000437000002000436" \o
        "000439000439000001000658000440000440000001000441000444000444000001000445000452000452000001000454000453000453000001000454" \o
        "000455000455000001000457000456000456000001000457000458000458000001000460000459000475000002000460000478000494000002000479" \o
        "000497000497000001000499000498000500000002000499000502000502000001000405000503000503000001000447000504000542000002000505" \o
        "000544000544000001000414000546000562000002000547000570000570000001011365000571000571000001000572000573000573000001000410" \o
        "000574000574000001011366000577000577000001000578000579000579000001000384000580000580000001000649000581000581000001000652" \o
        "000582000590000002000583000880000882000002000881000886000886000001000887000895000895000001001011000902000902000001000940" \o
        "000904000906000001000941000908000908000001000972000910000911000001000973000913000929000001000945000931000939000001000963" \o
        "000975000975000001000983000984001006000002000985001012001012000001000952001015001015000001001016001017001017000001001010" \o
        "001018001018000001001019001021001023000001000891001024001039000001001104001040001071000001001072001120001152000002001121" \o
        "001162001214000002001163001216001216000001001231001217001229000002001218001232001326000002001233001329001366000001001377" \o
        "004256004293000001011520004295004295000001011559004301004301000001011565005024005103000001043888005104005109000001005112" \o
        "007312007354000001004304007357007359000001004349007680007828000002007681007838007838000001000223007840007934000002007841" \o
        "007944007951000001007936007960007965000001007952007976007983000001007968007992007999000001007984008008008013000001008000" \o
        "008025008031000002008017008040008047000001008032008072008079000001008064008088008095000001008080008104008111000001008096" \o
        "008120008121000001008112008122008123000001008048008124008124000001008115008136008139000001008050008140008140000001008131" \o
        "008152008153000001008144008154008155000001008054008168008169000001008160008170008171000001008058008172008172000001008165" \o
        "008184008185000001008056008186008187000001008060008188008188000001008179008486008486000001000969008490008490000001000107" \o
        "008491008491000001000229008498008498000001008526008544008559000001008560008579008579000001008580009398009423000001009424" \o
        "011264011311000001011312011360011360000001011361011362011362000001000619011363011363000001007549011364011364000001000637" \o
        "011367011371000002011368011373011373000001000593011374011374000001000625011375011375000001000592011376011376000001000594" \o
        "011378011378000001011379011381011381000001011382011390011391000001000575011392011490000002011393011499011501000002011500" \o
        "011506011506000001011507042560042604000002042561042624042650000002042625042786042798000002042787042802042862000002042803" \o
        "042873042875000002042874042877042877000001007545042878042886000002042879042891042891000001042892042893042893000001000613" \o
        "042896042898000002042897042902042920000002042903042922042922000001000614042923042923000001000604042924042924000001000609" \o
        "042925042925000001000620042926042926000001000618042928042928000001000670042929042929000001000647042930042930000001000669" \o
        "042931042931000001043859042932042946000002042933042948042948000001042900042949042949000001000642042950042950000001007566" \o
        "042951042953000002042952042960042960000001042961042966042968000002042967042997042997000001042998065313065338000001065345" \o
        "066560066599000001066600066736066771000001066776066928066964000002066967066929066937000002066968066941066953000002066980" \o
        "066957066961000002066996066965066965000001067004068736068786000001068800071840071871000001071872093760093791000001093792" \o
        "125184125217000001125218", 4)

(* blank, \t, \n, \v, \f, \r and the separators 28..31 *)
AsciiSpaces == {" ", "\t", "\n", "\r", "\f", "", "", "", "", ""}

(* str.isalpha, str.isdigit, str.isdecimal, str.isspace of one character *)
IsAsciiLetter(c) == c \in CharsOf(LowerLetters \o UpperLetters)
IsAlphaChar(c) ==
    IF Len(c) = 1 THEN IsAsciiLetter(c) ELSE InRanges(HighOrd(c), AlphaRanges)
IsDigitChar(c) == IF Len(c) = 1 THEN c \in Digits ELSE InRanges(HighOrd(c), DigitRanges)
IsDecimalChar(c) == IF Len(c) = 1 THEN c \in Digits ELSE InRanges(HighOrd(c), DecimalRanges)
IsAlnumChar(c) ==
    IF Len(c) = 1 THEN IsAsciiLetter(c) \/ c \in Digits ELSE InRanges(HighOrd(c), AlnumRanges)
IsSpaceChar(c) == IF Len(c) = 1 THEN c \in AsciiSpaces ELSE HighOrd(c) \in UnicodeSpaces

(* str.lower of one character standing alone *)
LowerChar(c) ==
    IF Len(c) = 1 THEN (IF c \in UpperSet THEN ToLower[c] ELSE c)
    ELSE LET To(cp) == IF cp < 128 THEN Char(LowerLetters, cp - 96) ELSE Chr(cp)
             Moved(cp, runs) ==
                 IF cp = 304 THEN "i" \o Chr(775)
                 ELSE IF runs = {} THEN c
                 ELSE To(cp - (CHOOSE r \in runs : TRUE)[1] + (CHOOSE r \in runs : TRUE)[4])
             Of(cp) ==
                 Moved(cp, {r \in LowerRuns : r[1] <= cp /\ cp <= r[2] /\ (cp - r[1]) % r[3] = 0})
         IN  Of(HighOrd(c))

(* A capital sigma becomes the final small sigma when a cased character    *)
(* comes before it and none after it, case-ignorable characters skipped.   *)
(* (The grave accent is case-ignorable too; a TLA+ string cannot hold it.) *)
IsIgnorable(c) ==
    IF Len(c) = 1 THEN c \in {"'", ".", ":", "^"} ELSE InRanges(HighOrd(c), IgnorableRanges)
IsCased(c) == IF Len(c) = 1 THEN IsAsciiLetter(c) ELSE InRanges(HighOrd(c), CasedRanges)
CaseKind(c) == IF IsIgnorable(c) THEN "ignorable" ELSE IF IsCased(c) THEN "cased" ELSE "other"
FinalSigma(cs, i) ==
    LET Final(kind) ==
            /\ \E j \in 1..(i - 1) :
                  kind[j] = "cased" /\ \A k \in (j + 1)..(i - 1) : kind[k] = "ignorable"
            /\ ~\E j \in (i + 1)..Len(cs) :
                  kind[j] = "cased" /\ \A k \in (i + 1)..(j - 1) : kind[k] = "ignorable"
    IN  Final([j \in 1..Len(cs) |-> CaseKind(cs[j])])

(* str.lower *)
LowerChars(cs) ==
    [i \in 1..Len(cs) |->
        IF cs[i] = Chr(931) /\ FinalSigma(cs, i) THEN Chr(962) ELSE LowerChar(cs[i])]
PyLower(s) == Join(LowerChars(PyChars(s)))

(* str.lstrip, str.rstrip, str.strip: whitespace characters go *)
FirstKept(sp) ==
    IF \A i \in DOMAIN sp : sp[i] THEN Len(sp) + 1
    ELSE CHOOSE i \in DOMAIN sp : ~sp[i] /\ \A j \in 1..(i - 1) : sp[j]
LastKept(sp) ==
    IF \A i \in DOMAIN sp : sp[i] THEN 0
    ELSE CHOOSE i \in DOMAIN sp : ~sp[i] /\ \A j \in (i + 1)..Len(sp) : sp[j]
Spaces(cs) == [i \in 1..Len(cs) |-> IsSpaceChar(cs[i])]
PyStrip(s) ==
    LET Kept(cs, sp) == Join(SubSeq(cs, FirstKept(sp), LastKept(sp)))
        Of(cs) == Kept(cs, Spaces(cs))
    IN  Of(PyChars(s))

(* str.isdigit, str.isalnum *)
PyIsDigit(s) == s # "" /\ \A c \in Range(PyChars(s)) : IsDigitChar(c)
PyIsAlnum(s) == s # "" /\ \A c \in Range(PyChars(s)) : IsAlnumChar(c)

DigitVal(c) == DigitValue[c]

RECURSIVE ParseDigits(_)
ParseDigits(s) == IF s = "" THEN 0 ELSE ParseDigits(Front(s)) * 10 + DigitVal(Char(s, Len(s)))

Zeros(k) == Join([i \in 1..k |-> "0"])

(* int(text) and float(text) first bring the text to ASCII: a decimal      *)
(* digit of any script becomes its ASCII digit, a whitespace character     *)
(* from 128 up a blank and any other character from 128 up a '?'; then     *)
(* they strip blank, \t, \n, \v, \f and \r from both ends.                 *)
DecimalDigit(cp, run) == ToString((cp - run[1]) % 10)
ToAsciiChar(c) ==
    IF Len(c) = 1 /\ ~IsHighByte(c) THEN c
    ELSE LET In(cp, runs) ==
                 IF runs # {} THEN DecimalDigit(cp, CHOOSE r \in runs : TRUE)
                 ELSE IF cp \in UnicodeSpaces THEN " "
                 ELSE "?"
             Of(cp) == In(cp, {r \in DecimalRanges : r[1] <= cp /\ cp <= r[2]})
         IN  Of(HighOrd(c))
ToAscii(s) ==
    IF IsAscii(s) THEN s
    ELSE LET Of(cs) == Join([i \in 1..Len(cs) |-> ToAsciiChar(cs[i])]) IN Of(PyChars(s))
CSpaces == {" ", "\t", "\n", "\r", "\f", ""}
CStrip(s) ==
    IF \A i \in 1..Len(s) : Char(s, i) \in CSpaces THEN ""
    ELSE LET first == CHOOSE i \in 1..Len(s) :
                         Char(s, i) \notin CSpaces /\ \A j \in 1..(i - 1) : Char(s, j) \in CSpaces
             last == CHOOSE i \in 1..Len(s) :
                        Char(s, i) \notin CSpaces /\ \A j \in (i + 1)..Len(s) : Char(s, j) \in CSpaces
         IN  SubSeq(s, first, last)
NumberText(s) == CStrip(ToAscii(s))

(* digits, with single underscores allowed between them *)
DigitGroups(u) ==
    /\ u # ""
    /\ Char(u, 1) \in Digits
    /\ Char(u, Len(u)) \in Digits
    /\ \A i \in 1..Len(u) : Char(u, i) \in Digits \/ Char(u, i) = "_"
    /\ \A i \in 1..(Len(u) - 1) : ~(Char(u, i) = "_" /\ Char(u, i + 1) = "_")
DigitsOf(u) ==
    IF \A i \in 1..Len(u) : Char(u, i) # "_" THEN u
    ELSE Join(SelectSeq([i \in 1..Len(u) |-> Char(u, i)], LAMBDA c : c # "_"))

(* sys.get_int_max_str_digits(): int() raises ValueError on more digits *)
IntMaxStrDigits == 4300

(* Unbounded integers as decimal text without leading zeros, with a '-'    *)
(* for a negative one                                                      *)
Canon(s) ==
    IF s = "" THEN ""
    ELSE IF \A i \in 1..Len(s) : Char(s, i) = "0" THEN "0"
    ELSE SubSeq(s, CHOOSE i \in 1..Len(s) :
                      Char(s, i) # "0" /\ \A j \in 1..(i - 1) : Char(s, j) = "0", Len(s))

Unsigned(s) == IF s # "" /\ Char(s, 1) \in {"+", "-"} THEN Rest(s) ELSE s
Signed(negative, digits) ==
    LET Of(m) == IF negative /\ m # "0" THEN "-" \o m ELSE m IN Of(Canon(digits))

(* int(text): whether it returns, and what, as text *)
PyIntOk(s) ==
    LET Ok(u) == DigitGroups(u) /\ Len(DigitsOf(u)) <= IntMaxStrDigits
    IN  Ok(Unsigned(NumberText(s)))
PyIntText(s) ==
    LET Of(t) == Signed(Char(t, 1) = "-", DigitsOf(Unsigned(t))) IN Of(NumberText(s))

(* The handlers compare int(text) with the length of a list: the value is  *)
(* given as a number, and a value of ten digits or more as the number of   *)
(* ten digits 1000000000 (or its negative).                                *)
PyInt(s) ==
    LET Size(m) == IF Len(m) > 9 THEN 1000000000 ELSE ParseDigits(m)
        Of(v) == (IF Char(v, 1) = "-" THEN 0 - 1 ELSE 1) * Size(Unsigned(v))
    IN  Of(PyIntText(s))

----------------------------------------------------------------------------
(* Python values *)

RECURSIVE LexLt(_, _)
LexLt(a, b) ==
    IF a = "" THEN FALSE
    ELSE IF Char(a, 1) = Char(b, 1) THEN LexLt(Rest(a), Rest(b))
         ELSE DigitVal(Char(a, 1)) < DigitVal(Char(b, 1))

(* a < b and a > b for integers that are not negative *)
IntLt(a, b) == Len(a) < Len(b) \/ (Len(a) = Len(b) /\ LexLt(a, b))
IntGt(a, b) == IntLt(b, a)

StrV(s) == [t |-> "str", n |-> 0, d |-> 0, s |-> s]
IntV(s) == [t |-> "int", n |-> 0, d |-> 0, s |-> Signed(s # "" /\ Char(s, 1) = "-", Unsigned(s))]
NoneV == [t |-> "none", n |-> 0, d |-> 0, s |-> ""]
BoolV(b) == [t |-> "bool", n |-> IF b THEN 1 ELSE 0, d |-> 0, s |-> ""]

(* A float is sign * digits / 10^d: n is the sign (1 or -1), s the digits  *)
(* without leading zeros and d >= 0 the number of decimals, the last of    *)
(* which is not 0 (so 2.5 is n = 1, s = "25", d = 1 and 100.0 is s =       *)
(* "100", d = 0); s is "inf" for an infinity and "nan" for a NaN.  The     *)
(* digits are those of repr: float() rounds a decimal to the nearest       *)
(* double (a tie to the even one), and repr gives the fewest digits that   *)
(* read back as that double.                                               *)
Inf(sign) == [t |-> "float", n |-> sign, d |-> 0, s |-> "inf"]
NaN == [t |-> "float", n |-> 1, d |-> 0, s |-> "nan"]

(* 2^1024 - 2^970: from here on a decimal rounds to an infinity *)
FloatOverflow ==
    "179769313486231580793728971405303415079934132710037826936173" \o
    "778980444968292764750946649017977587207096330286416692887910" \o
    "946555547851940402630657488671505820681908902000708383676273" \o
    "854845817711531764475730270069855571366959622842914819860834" \o
    "936475292719074168444365510704342711559699508093042880177904" \o
    "174497792"
(* the digits of 2^-1075 after its 323 leading zeros: down to here a       *)
(* decimal rounds to zero                                                  *)
FloatUnderflow ==
    "247032822920623272088284396434110686182529901307162382212792" \o
    "841250337753635104375932649918180817996189898282347722858865" \o
    "463328355177969898199387398005390939063150356595155702263922" \o
    "908583924491051844359318028499365361525003193704576782492193" \o
    "656236698636584807570015857692699037063119282795585513329278" \o
    "343384093519780155312465972635795746227664652728272200563740" \o
    "064854999770965994704540208281662262378573934507363390079677" \o
    "619305775067401763246736009689513405355374585166611342237666" \o
    "786041621596804619144672918403005300575308490487653917113865" \o
    "916462395249126236538818796362393732804238910186723484976682" \o
    "350898633885879256283027559956575244555072551893136908362547" \o
    "791869486679949683240497058210285131854513962138377228261454" \o
    "37693412532098591327667236328125"
FloatUnderflowZeros == 323

(* a <= b for the digits of two decimal fractions 0.a and 0.b *)
RECURSIVE FracLe(_, _)
FracLe(a, b) ==
    IF a = "" THEN TRUE
    ELSE IF b = "" THEN Canon(a) = "0"
    ELSE IF Char(a, 1) = Char(b, 1) THEN FracLe(Rest(a), Rest(b))
    ELSE DigitVal(Char(a, 1)) < DigitVal(Char(b, 1))

(* the zeros that end the digits (not all of them zeros) *)
TrailingZeros(digits) ==
    Len(digits) - CHOOSE i \in 1..Len(digits) :
                     Char(digits, i) # "0" /\ \A j \in (i + 1)..Len(digits) : Char(digits, j) = "0"
NoTrailingZeros(digits) == SubSeq(digits, 1, Len(digits) - TrailingZeros(digits))
DropTrailingZeros(digits, d) ==
    LET Drop(k) == [s |-> SubSeq(digits, 1, Len(digits) - k), d |-> d - k]
        Least(z) == IF z < d THEN z ELSE d
    IN  Drop(Least(TrailingZeros(digits)))

(* Whole numbers of any size as sequences of decimal digits, the first the *)
(* most significant.  Twice and Half keep the length (for Twice the first  *)
(* digit is below 5).                                                      *)
DigitSeq(m) == SubSeq([i \in 1..Len(m) |-> DigitValue[Char(m, i)]], 1, Len(m))
DigitText(x) == Join(SubSeq([i \in 1..Len(x) |-> ToString(x[i])], 1, Len(x)))
Pad(x, width) == [i \in 1..(width - Len(x)) |-> 0] \o x
Twice(x) ==
    SubSeq([i \in 1..Len(x) |->
               (2 * x[i] + IF i < Len(x) /\ x[i + 1] >= 5 THEN 1 ELSE 0) % 10], 1, Len(x))
TwicePlusOne(x) == [Twice(x) EXCEPT ![Len(x)] = @ + 1]
Half(x) ==
    SubSeq([i \in 1..Len(x) |->
               (x[i] + IF i > 1 /\ x[i - 1] % 2 = 1 THEN 10 ELSE 0) \div 2], 1, Len(x))
SeqLt(a, b) == \E i \in 1..Len(a) : a[i] < b[i] /\ \A j \in 1..(i - 1) : a[j] = b[j]
NonZero(x) == \E i \in 1..Len(x) : x[i] # 0
(* x + 1 and x - 1 (x + 1 fits in the length of x, and x is not 0) *)
Succ(x) ==
    LET At(j) == [i \in 1..Len(x) |-> IF i < j THEN x[i] ELSE IF i = j THEN x[i] + 1 ELSE 0]
    IN  SubSeq(At(CHOOSE j \in 1..Len(x) : x[j] # 9 /\ \A i \in (j + 1)..Len(x) : x[i] = 9),
               1, Len(x))
Pred(x) ==
    LET At(j) == [i \in 1..Len(x) |-> IF i < j THEN x[i] ELSE IF i = j THEN x[i] - 1 ELSE 9]
    IN  SubSeq(At(CHOOSE j \in 1..Len(x) : x[j] # 0 /\ \A i \in (j + 1)..Len(x) : x[i] = 0),
               1, Len(x))

(* x * 2^j for a j of either sign: j doublings, or -j halvings *)
RECURSIVE Shifted(_, _)
Shifted(x, j) ==
    IF x = <<>> \/ j = 0 THEN x
    ELSE IF j = 1 THEN Twice(x)
    ELSE IF j = 0 - 1 THEN Half(x)
    ELSE Shifted(Shifted(x, j \div 2), j - (j \div 2))

(* A double is q * 2^e with q below 2^53, and from 2^52 on unless e is     *)
(* -1074 (sys.float_info: mant_dig 53, min_exp -1021)                      *)
MantissaWidth == 17
TwoTo52 == DigitSeq("04503599627370496")
TwoTo53 == DigitSeq("09007199254740992")
MinExponent == 0 - 1074
KeptDigits == 800

(* The value (whole.frac) * 2^e is brought to a whole part of 53 bits,     *)
(* or to e = -1074: r is the first bit of what is left of it below the     *)
(* whole part, s whether more than that bit is left.  At most 2^n steps.   *)
RoundBit(frac) == frac # <<>> /\ frac[1] >= 5
Sticky(frac) == frac # <<>> /\ (frac[1] \notin {0, 5} \/ NonZero(Rest(frac)))
RECURSIVE Scaled(_, _)
Scaled(st, n) ==
    LET Doubled(x, nw) ==
            LET Split(whole, frac) ==
                    [whole |-> whole, frac |-> frac, e |-> st.e - 1,
                     r |-> RoundBit(frac), s |-> Sticky(frac)]
            IN  Split(SubSeq(x, 1, nw), SubSeq(x, nw + 1, Len(x)))
    IN  IF ~SeqLt(st.whole, Pad(TwoTo53, Len(st.whole)))
        THEN IF n = 0
             THEN [whole |-> Half(st.whole), frac |-> <<>>, e |-> st.e + 1,
                   r |-> st.whole[Len(st.whole)] % 2 = 1, s |-> st.s \/ st.r]
             ELSE Scaled(Scaled(st, n - 1), n - 1)
        ELSE IF st.e > MinExponent /\ SeqLt(st.whole, Pad(TwoTo52, Len(st.whole)))
        THEN IF n = 0
             THEN Doubled(Twice(st.whole \o st.frac), Len(st.whole))
             ELSE Scaled(Scaled(st, n - 1), n - 1)
        ELSE st

(* the double nearest to 0.m * 10^p (m without leading zeros, the value    *)
(* above 2^-1075 and below 2^1024 - 2^970), and whether it is that value:  *)
(* digits of m after the first 800 count only as being there               *)
Nearest(m, p) ==
    LET Cut(ds) ==
            IF Len(ds) <= KeptDigits THEN ds
            ELSE SubSeq(ds, 1, KeptDigits)
                 \o (IF NonZero(SubSeq(ds, KeptDigits + 1, Len(ds))) THEN <<1>> ELSE <<>>)
        Start(whole, frac) ==
            [whole |-> Pad(whole, IF Len(whole) < MantissaWidth THEN MantissaWidth
                                  ELSE Len(whole) + 1),
             frac |-> frac, e |-> 0, r |-> RoundBit(frac), s |-> Sticky(frac)]
        Parts(ds) ==
            IF p <= 0 THEN Start(<<>>, [i \in 1..(0 - p) |-> 0] \o ds)
            ELSE IF p >= Len(ds) THEN Start(ds \o [i \in 1..(p - Len(ds)) |-> 0], <<>>)
            ELSE Start(SubSeq(ds, 1, p), SubSeq(ds, p + 1, Len(ds)))
        Mantissa(whole) == SubSeq(whole, Len(whole) - MantissaWidth + 1, Len(whole))
        \* round to nearest, a tie to the even mantissa
        Round(q, st) ==
            LET Up(u) == IF u = TwoTo53 THEN [q |-> TwoTo52, e |-> st.e + 1, exact |-> FALSE]
                         ELSE [q |-> u, e |-> st.e, exact |-> FALSE]
            IN  IF st.r /\ (st.s \/ q[MantissaWidth] % 2 = 1) THEN Up(Succ(q))
                ELSE [q |-> q, e |-> st.e, exact |-> ~st.r /\ ~st.s]
        Of(st) == Round(Mantissa(st.whole), st)
    IN  Of(Scaled(Parts(Cut(DigitSeq(m))), 11))

(* repr(float): the fewest digits that float() reads back as the double    *)
(* q * 2^e, and of those the nearest to it (a tie to the even digit)       *)
Shortest(b) ==
    LET j == b.e - 2
        decimals == IF j < 0 THEN 0 - j ELSE 0
        \* k * 2^j in units of 10^-decimals
        Expanded(k) ==
            (IF j >= 0 THEN <<>> ELSE <<0>>)
            \o Shifted(IF j >= 0 THEN Pad(k, Len(k) + (j * 302) \div 1000 + 2)
                       ELSE k \o [i \in 1..(0 - j) |-> 0], j)
        closed == b.q[MantissaWidth] % 2 = 0
        \* half way to the doubles below and above, and 4q between them
        Below(x) == IF b.q = TwoTo52 /\ b.e > MinExponent THEN TwicePlusOne(x) ELSE Twice(x)
        Around(q) == <<Below(TwicePlusOne(Pred(q))), Twice(Twice(q)), Twice(TwicePlusOne(q))>>
        Pick(at) ==
            LET xs == at[2]
                n == Len(at[2])
                Inside(c) == /\ SeqLt(at[1], c) \/ (closed /\ at[1] = c)
                             /\ SeqLt(c, at[3]) \/ (closed /\ c = at[3])
                Down(c) == SubSeq([i \in 1..n |-> IF i <= c THEN xs[i] ELSE 0], 1, n)
                Up(c) == Succ(SubSeq(xs, 1, IF c >= n THEN n ELSE c))
                         \o [i \in 1..(n - c) |-> 0]
                UpNearer(c) ==
                    /\ c < n
                    /\ \/ xs[c + 1] > 5
                       \/ /\ xs[c + 1] = 5
                          /\ NonZero(SubSeq(xs, c + 2, n)) \/ xs[c] % 2 = 1
                \* the values of c digits that lie inside, the nearer first
                Nearer(c, down, up) ==
                    SelectSeq(IF UpNearer(c) THEN <<up, down>> ELSE <<down, up>>, Inside)
                Kept(c) == Nearer(c, Down(c), Up(c))
                First(found) ==
                    found[CHOOSE c \in 1..Len(found) :
                              found[c] # <<>> /\ \A c2 \in 1..(c - 1) : found[c2] = <<>>][1]
                From(lead) ==
                    First(SubSeq([c \in 1..(MantissaWidth + 1) |-> Kept(lead - 2 + c)],
                                 1, MantissaWidth + 1))
            IN  From(CHOOSE i \in 1..n : xs[i] # 0 /\ \A i2 \in 1..(i - 1) : xs[i2] = 0)
        Each(at) == SubSeq([k \in 1..3 |-> Expanded(at[k])], 1, 3)
        Of(q) == Pick(Each(Around(q)))
        Text(r) == [s |-> Canon(r.s), d |-> r.d]
    IN  Text(DropTrailingZeros(DigitText(Of(Pad(b.q, MantissaWidth + 2))), decimals))

(* the float of sign * digits / 10^d, for any digits and any d: a decimal  *)
(* of up to 15 significant digits (DBL_DIG) and of at least 1e-307 is      *)
(* what repr gives for its double                                          *)
FloatDig == 15
FloatMin10Exp == 0 - 307
FloatOf(sign, m, p, d) ==
    LET Zero == [t |-> "float", n |-> sign, d |-> 0, s |-> "0"]
        Float(r) == [t |-> "float", n |-> sign, d |-> r.d, s |-> r.s]
    IN  \* the value is 0.m * 10^p = m / 10^d
        IF m = "0" \/ m = "" THEN Zero
        ELSE IF p > Len(FloatOverflow) THEN Inf(sign)
        ELSE IF p < 0 - FloatUnderflowZeros THEN Zero
        ELSE IF p = 0 - FloatUnderflowZeros /\ FracLe(m, FloatUnderflow) THEN Zero
        ELSE IF p = Len(FloatOverflow)
                /\ ~IntLt(SubSeq(m \o Zeros(p - Len(m)), 1, p), FloatOverflow)
        THEN Inf(sign)
        ELSE IF Len(NoTrailingZeros(m)) <= FloatDig /\ p - 1 >= FloatMin10Exp
        THEN (IF d <= 0 THEN Float([s |-> m \o Zeros(0 - d), d |-> 0])
              ELSE Float(DropTrailingZeros(m, d)))
        ELSE Float(Shortest(Nearest(m, p)))
FloatV(sign, digits, d) == FloatOf(sign, Canon(digits), Len(Canon(digits)) - d, d)

IsNum(v) == v.t \in {"int", "float"}
IsFinite(v) == v.s \notin {"inf", "nan"}

(* a == b in Python: an int equals the float whose double holds exactly   *)
(* the int's value; a NaN equals nothing; the two zeros are equal; a str   *)
(* never equals a number; None equals only None.                           *)
IntEqFloat(i, f) ==
    /\ IsFinite(f)
    /\ f.d = 0
    /\ IF i.s = "0" THEN f.s = "0"
       ELSE /\ (f.n < 0) = (Char(i.s, 1) = "-")
            /\ FloatV(f.n, Unsigned(i.s), 0) = f
            /\ \/ Len(Unsigned(i.s)) <= FloatDig
               \/ Nearest(Unsigned(i.s), Len(Unsigned(i.s))).exact
AsNumber(v) == IF v.t = "bool" THEN IntV(ToString(v.n)) ELSE v
NumberEq(x, y) ==
    CASE {x.t, y.t} = {"int", "float"} ->
            IntEqFloat(IF x.t = "int" THEN x ELSE y, IF x.t = "int" THEN y ELSE x)
      [] x.t = "float" /\ y.t = "float" -> x.s # "nan" /\ (x = y \/ (x.s = "0" /\ y.s = "0"))
      [] OTHER -> x = y
PyEq(a, b) == NumberEq(AsNumber(a), AsNumber(b))

(* value < 0 *)
IsNegative(v) ==
    CASE v.t = "int" -> Char(v.s, 1) = "-"
      [] v.t = "float" -> v.n < 0 /\ v.s \notin {"0", "nan"}
      [] OTHER -> FALSE

(* float(text): [sign] inf | infinity | nan in any case, or digits with an *)
(* optional point and an optional exponent                                 *)
ExponentAt(u) == {i \in 1..Len(u) : Char(u, i) \in {"e", "E"}}
PointAt(s) == {i \in 1..Len(s) : Char(s, i) = "."}
FloatParts(u) ==
    LET First(set, none) == IF set = {} THEN none ELSE CHOOSE i \in set : \A j \in set : i <= j
        Parts(mant, exp, hasexp, pts, p) ==
            [whole |-> SubSeq(mant, 1, p - 1),
             frac |-> SubSeq(mant, p + 1, Len(mant)),
             point |-> pts # {},
             exp |-> exp,
             hasexp |-> hasexp]
        Pointed(mant, exp, hasexp, pts) == Parts(mant, exp, hasexp, pts, First(pts, Len(mant) + 1))
        Cut(cut, hasexp) ==
            Pointed(SubSeq(u, 1, cut - 1), SubSeq(u, cut + 1, Len(u)), hasexp,
                    PointAt(SubSeq(u, 1, cut - 1)))
        Of(e) == Cut(First(e, Len(u) + 1), e # {})
    IN  Of(ExponentAt(u))
DecimalOk(u) ==
    LET Ok(f) ==
            /\ f.whole = "" \/ DigitGroups(f.whole)
            /\ f.frac = "" \/ DigitGroups(f.frac)
            /\ f.whole # "" \/ f.frac # ""
            /\ f.hasexp => DigitGroups(Unsigned(f.exp))
    IN  Ok(FloatParts(u))
(* the words are read in any case *)
AsciiLower(u) ==
    Join([i \in 1..Len(u) |-> IF Char(u, i) \in UpperSet THEN ToLower[Char(u, i)] ELSE Char(u, i)])
PyFloatOk(s) ==
    LET Ok(u) == AsciiLower(u) \in {"inf", "infinity", "nan"} \/ DecimalOk(u)
    IN  Ok(Unsigned(NumberText(s)))

(* the exponent as a number; beyond a million every value is zero or an    *)
(* infinity, as it is at a million                                         *)
ExponentOf(text) ==
    LET Size(m) == IF Len(m) > 6 THEN 1000000 ELSE ParseDigits(m)
    IN  (IF text # "" /\ Char(text, 1) = "-" THEN 0 - 1 ELSE 1)
        * Size(Canon(DigitsOf(Unsigned(text))))
FloatOfText(t) ==
    LET sign == IF Char(t, 1) = "-" THEN 0 - 1 ELSE 1
        word == AsciiLower(Unsigned(t))
        f == FloatParts(Unsigned(t))
    IN  IF word \in {"inf", "infinity"} THEN Inf(sign)
        ELSE IF word = "nan" THEN NaN
        ELSE FloatV(sign, DigitsOf(f.whole) \o DigitsOf(f.frac),
                    Len(DigitsOf(f.frac)) - (IF f.hasexp THEN ExponentOf(f.exp) ELSE 0))
PyFloat(s) == FloatOfText(NumberText(s))

(* repr(float): the digits in positional form when the first of them is    *)
(* at most 16 places before the point and at most 4 after it, else in      *)
(* exponent form                                                           *)
ReprMinPoint == 0 - 4
ReprMaxPoint == 16
FloatRepr(v) ==
    LET Exponent(e) ==
            "e" \o (IF e < 0 THEN "-" \o (IF e > 0 - 10 THEN "0" ELSE "") \o ToString(0 - e)
                    ELSE "+" \o (IF e < 10 THEN "0" ELSE "") \o ToString(e))
        \* the value is 0.m * 10^p
        Repr(sign, m, p) ==
            IF p > ReprMaxPoint \/ p <= ReprMinPoint
            THEN sign \o Char(m, 1) \o (IF Len(m) > 1 THEN "." \o Rest(m) ELSE "")
                 \o Exponent(p - 1)
            ELSE IF p <= 0 THEN sign \o "0." \o Zeros(0 - p) \o m
            ELSE IF p < Len(m) THEN sign \o SubSeq(m, 1, p) \o "." \o SubSeq(m, p + 1, Len(m))
            ELSE sign \o m \o Zeros(p - Len(m)) \o ".0"
        Of(sign) ==
            IF v.s = "nan" THEN "nan"
            ELSE IF v.s = "inf" THEN sign \o "inf"
            ELSE IF v.s = "0" THEN sign \o "0.0"
            ELSE Repr(sign, NoTrailingZeros(v.s), Len(v.s) - v.d)
    IN  Of(IF v.n < 0 THEN "-" ELSE "")

(* a rendering that drops the fraction of a float *)
PyStrOfWhole(v) ==
    CASE v.t = "str" -> v.s
      [] v.t = "int" -> v.s
      [] v.t = "float" ->
            (IF Len(v.s) > v.d THEN SubSeq(v.s, 1, Len(v.s) - v.d) ELSE "0") \o ".0"

(* str(value), as csv.writer and print render it *)
PyStr(v) ==
    CASE v.t = "str" -> v.s
      [] v.t = "int" -> v.s
      [] v.t = "float" -> FloatRepr(v)
      [] v.t = "bool" -> IF v.n = 1 THEN "True" ELSE "False"
      [] OTHER -> "None"

----------------------------------------------------------------------------
(* Python dicts: insertion-ordered keys and a mapping *)

EmptyMap == [k \in {} |-> NoneV]
EmptyDict == [keys |-> <<>>, val |-> EmptyMap]

Has(dct, k) == k \in DOMAIN dct.val
(* a function expression is evaluated when it is applied; these give the   *)
(* function and the sequence with their values worked out                  *)
Explicit(f) == f @@ EmptyMap
Tuple(sq) == SubSeq(sq, 1, Len(sq))

MapSet(f, k, v) == Explicit([x \in DOMAIN f \cup {k} |-> IF x = k THEN v ELSE f[x]])
MapDel(f, k) == Explicit([x \in DOMAIN f \ {k} |-> f[x]])
DictSet(dct, k, v) ==
    [keys |-> IF Has(dct, k) THEN dct.keys ELSE Append(dct.keys, k),
     val |-> MapSet(dct.val, k, v)]
DictDel(dct, k) ==
    [keys |-> SelectSeq(dct.keys, LAMBDA x : x # k), val |-> MapDel(dct.val, k)]
DictGet(dct, k) == IF Has(dct, k) THEN dct.val[k] ELSE NoneV

----------------------------------------------------------------------------
(* validation.py *)

AgeMin == 5
AgeMax == 100
RollMaxDigits == 10
GradeMax == 100
NameMinLen == 2
EmailMinLen == 5
EmailUserMax == 64
EmailMaxLen == 254
PhoneMinLen == 10
PhoneMaxLen == 15
AddressMinLen == 10
ClassMinLen == 2
ClassMaxLen == 10

valid_domains ==
    {"gmail.com", "hotmail.com", "yahoo.com", "outlook.com", "icloud.com",
     "protonmail.com", "aol.com", "mail.com", "zoho.com", "yandex.com",
     "gmx.com", "live.com"}

(* the classes [a-zA-Z0-9._%+-], [a-zA-Z0-9.-] and [a-zA-Z] of the pattern: *)
(* no byte from 128 up is in them                                          *)
IsEmailLocalChar(c) == IsAsciiLetter(c) \/ c \in Digits \/ c \in {".", "_", "%", "+", "-"}
IsEmailDomainChar(c) == IsAsciiLetter(c) \/ c \in Digits \/ c \in {".", "-"}
AllEmailLocal(s) == \A i \in 1..Len(s) : IsEmailLocalChar(Char(s, i))
AllEmailDomain(s) == \A i \in 1..Len(s) : IsEmailDomainChar(Char(s, i))
AllAlpha(s) == \A i \in 1..Len(s) : IsAsciiLetter(Char(s, i))

(* re.match(r'^[a-zA-Z0-9._%+-]+@[a-zA-Z0-9.-]+\.[a-zA-Z]{2,}$', s): the   *)
(* classes hold ASCII characters only, and '$' matches at the end of the   *)
(* text and before a newline that ends it.                                 *)
EmailPatternToEnd(s) ==
    \E a \in 2..Len(s) : \E p \in (a + 2)..Len(s) :
        /\ Char(s, a) = "@"
        /\ AllEmailLocal(SubSeq(s, 1, a - 1))
        /\ AllEmailDomain(SubSeq(s, a + 1, p - 1))
        /\ Char(s, p) = "."
        /\ Len(s) - p >= 2
        /\ AllAlpha(SubSeq(s, p + 1, Len(s)))
EmailPattern(s) ==
    \/ EmailPatternToEnd(s)
    \/ s # "" /\ Char(s, Len(s)) = "\n" /\ EmailPatternToEnd(Front(s))

FirstAt(s) == CHOOSE a \in 1..Len(s) : Char(s, a) = "@" /\ \A b \in 1..(a - 1) : Char(s, b) # "@"

EmailOk(s) ==
    LET User(n) == n >= 1 /\ n <= EmailUserMax
        Split(username, domain) ==
            /\ User(PyLen(username))
            /\ PyLower(domain) \in valid_domains
            /\ username # "" /\ AllEmailLocal(username)
        At(a) == Split(SubSeq(s, 1, a - 1), SubSeq(s, a + 1, Len(s)))
        Of(n) ==
            /\ n >= EmailMinLen
            /\ "@" \in CharsOf(s)
            /\ EmailPattern(s)
            /\ At(FirstAt(s))
            /\ n <= EmailMaxLen
    IN  Of(PyLen(s))

Accept(v) == [ok |-> TRUE, value |-> v]
Reject == [ok |-> FALSE, value |-> NoneV]

(* rules for an int that put no limit on the digits of a roll number *)
IntRuleOkAnyLength(column_name, value) ==
    LET Rule(lower) ==
            CASE lower = "age" ->
                    ~(IntLt(value, ToString(AgeMin)) \/ IntGt(value, ToString(AgeMax)))
              [] lower = "roll number" -> ~IntLt(value, "1")
              [] lower = "grades" ->
                    ~(IntLt(value, "0") \/ IntGt(value, ToString(GradeMax)))
              [] OTHER -> TRUE
    IN  Rule(PyLower(column_name))

IntRuleOk(column_name, value) ==
    LET Rule(lower) ==
            CASE lower = "age" ->
                    ~(IntLt(value, ToString(AgeMin)) \/ IntGt(value, ToString(AgeMax)))
              [] lower = "roll number" ->
                    ~IntLt(value, "1") /\ ~(Len(value) > RollMaxDigits)
              [] lower = "grades" ->
                    ~(IntLt(value, "0") \/ IntGt(value, ToString(GradeMax)))
              [] OTHER -> TRUE
    IN  Rule(PyLower(column_name))

StrRuleOk(column_name, user_input) ==
    LET Rule(lower, cs) ==
            CASE lower = "name" ->
                    /\ \A c \in Range(cs) : IsAlphaChar(c) \/ IsSpaceChar(c)
                    /\ ~(Len(cs) < NameMinLen)
              [] lower = "email" -> EmailOk(user_input)
              [] lower = "phone" ->
                    /\ PyIsDigit(user_input)
                    /\ ~(Len(cs) < PhoneMinLen)
                    /\ ~(Len(cs) > PhoneMaxLen)
              [] lower = "address" ->
                    /\ ~(Len(cs) < AddressMinLen)
                    /\ \E c \in Range(cs) : IsDigitChar(c)
                    /\ \E c \in Range(cs) : IsAlphaChar(c)
              [] lower = "class" ->
                    /\ PyIsAlnum(user_input)
                    /\ ~(Len(cs) < ClassMinLen)
                    /\ ~(Len(cs) > ClassMaxLen)
              [] OTHER -> TRUE
    IN  Rule(PyLower(column_name), PyChars(user_input))

(* validate_input(column_name, user_input, expected_type).  A text of      *)
(* digits that int() does not read (a digit that is no decimal digit, or   *)
(* more digits than int() takes) raises the ValueError that the function   *)
(* turns into a rejection.                                                 *)
validate_input(column_name, user_input, expected_type) ==
    LET AsInt(value) == IF IntRuleOk(column_name, value) THEN Accept(IntV(value)) ELSE Reject
        AsFloat(value) == IF IsNegative(value) THEN Reject ELSE Accept(value)
    IN  IF user_input = "" THEN Reject
        ELSE CASE expected_type = "int" ->
                    IF ~PyIsDigit(user_input) THEN Reject
                    ELSE IF ~PyIntOk(user_input) THEN Reject
                    ELSE AsInt(PyIntText(user_input))
               [] expected_type = "float" ->
                    IF ~PyFloatOk(user_input) THEN Reject
                    ELSE AsFloat(PyFloat(user_input))
               [] expected_type = "str" ->
                    IF StrRuleOk(column_name, user_input)
                    THEN Accept(StrV(user_input)) ELSE Reject
               [] OTHER -> Reject

(* One round of get_valid_input's loop: the line is stripped and validated *)
get_valid_input(column_name, expected_type, raw) ==
    validate_input(column_name, PyStrip(raw), expected_type)

----------------------------------------------------------------------------
(* student.py and the persistence code of student_manager.py *)

(* A CSV cell is text.  A cell holding JSON text is kept as the document   *)
(* the text denotes: json.dumps builds it and json.loads reads it back.    *)
(* A JSON scalar keeps its literal: a string, a number as it is written    *)
(* (with a point or an exponent it is a float, without them an int; NaN,   *)
(* Infinity and -Infinity are floats), or one of null, true and false.     *)
TextCell(s) == [k |-> "text", text |-> s, doc |-> <<>>]
JsonCell(doc) == [k |-> "json", text |-> "", doc |-> doc]

JsonNumber(v) ==
    IF v.t = "float" /\ v.s = "nan" THEN "NaN"
    ELSE IF v.t = "float" /\ v.s = "inf" THEN (IF v.n < 0 THEN "-Infinity" ELSE "Infinity")
    ELSE PyStr(v)
JsonScalar(v) ==
    CASE v.t = "str" -> [j |-> "string", lit |-> v.s]
      [] v.t = "none" -> [j |-> "null", lit |-> "null"]
      [] v.t = "bool" -> IF v.n = 1 THEN [j |-> "true", lit |-> "true"]
                         ELSE [j |-> "false", lit |-> "false"]
      [] OTHER -> [j |-> "number", lit |-> JsonNumber(v)]
FromJsonScalar(x) ==
    CASE x.j = "string" -> StrV(x.lit)
      [] x.j = "null" -> NoneV
      [] x.j = "true" -> BoolV(TRUE)
      [] x.j = "false" -> BoolV(FALSE)
      [] OTHER ->
            IF x.lit = "NaN" THEN NaN
            ELSE IF x.lit = "Infinity" THEN Inf(1)
            ELSE IF x.lit = "-Infinity" THEN Inf(0 - 1)
            ELSE IF PointAt(x.lit) # {} \/ ExponentAt(x.lit) # {} THEN PyFloat(x.lit)
            ELSE IntV(x.lit)

json_dumps_dict(data) ==
    [j |-> "object", keys |-> data.keys,
     val |-> Explicit([k \in DOMAIN data.val |-> JsonScalar(data.val[k])])]

(* type(self.columns).  json.loads gives a list for an array, a dict for   *)
(* an object, else a str, an int, a float, a bool or None: a list is a     *)
(* sequence of names, a dict a record of keys and values, and any other    *)
(* value a record that names its type.                                     *)
ColumnsKind(cols) ==
    LET Of(text) == IF SubSeq(text, 1, 2) = "<<" THEN "list"
                    ELSE IF SubSeq(text, 1, 5) \in {"[keys", "[val "} THEN "dict"
                    ELSE cols.t
    IN  Of(ToString(cols))

(* json.dumps(self.columns): an array for a list, an object for a dict,    *)
(* else the scalar                                                         *)
json_dumps_list(names) ==
    LET Of(kind) == CASE kind = "list" -> [j |-> "array", keys |-> names, val |-> EmptyMap]
                      [] kind = "dict" -> json_dumps_dict(names)
                      [] OTHER -> JsonScalar(names)
    IN  Of(ColumnsKind(names))
json_loads_dict(doc) ==
    [keys |-> doc.keys,
     val |-> Explicit([k \in DOMAIN doc.val |-> FromJsonScalar(doc.val[k])])]

(* a to_json that leaves the ID out of the object *)
to_json_of_fields(data) == json_dumps_dict(DictDel(data, "ID"))

(* Student.to_json: the whole data dict, the ID included *)
to_json(data) == json_dumps_dict(data)

(* what there is at a path: nothing, a file, which has rows, or a          *)
(* directory                                                               *)
NoFile == [exists |-> FALSE, dir |-> FALSE, rows |-> <<>>]
Directory == [exists |-> TRUE, dir |-> TRUE, rows |-> <<>>]

(* StudentManager._save_data, lines 86-92: the file as it is rewritten,    *)
(* whole; csv.writer writes str(item) for each item of a row.              *)
save_data(cols, studs) ==
    [exists |-> TRUE, dir |-> FALSE,
     rows |-> <<<<TextCell("Columns"), JsonCell(json_dumps_list(cols))>>>>
              \o [i \in 1..Len(studs) |->
                    <<TextCell(PyStr(studs[i].val["ID"])), JsonCell(to_json(studs[i]))>>]]

default_column_types ==
    [k \in {"Name", "Age", "Email", "Phone", "Address", "Class", "Roll Number", "Grades"} |->
        IF k \in {"Age", "Roll Number"} THEN "int" ELSE "str"]

(* 'RollNo' -> 'Roll Number' in the column list *)
FixColumns(cols) ==
    IF "RollNo" \in Range(cols) /\ "Roll Number" \notin Range(cols)
    THEN Tuple([i \in 1..Len(cols) |-> IF cols[i] # "RollNo" THEN cols[i] ELSE "Roll Number"])
    ELSE cols

(* a renaming that copies the value and leaves the RollNo field in place *)
FixRecordKeepingOld(data) ==
    IF Has(data, "RollNo") /\ ~Has(data, "Roll Number")
    THEN DictSet(data, "Roll Number", data.val["RollNo"])
    ELSE data

(* 'RollNo' -> 'Roll Number' in one record: student_data['Roll Number'] =  *)
(* student_data.pop('RollNo')                                              *)
FixRecord(data) ==
    IF Has(data, "RollNo") /\ ~Has(data, "Roll Number")
    THEN DictSet(DictDel(data, "RollNo"), "Roll Number", data.val["RollNo"])
    ELSE data

(* Student(ID=student_id, **student_data) after student_data.pop('ID') *)
LoadedStudent(student_id, data) ==
    LET rest == DictDel(data, "ID") IN
    [keys |-> <<"ID">> \o rest.keys, val |-> MapSet(rest.val, "ID", StrV(student_id))]

IsJson(cell) == cell.k = "json"

(* json.loads makes an int of a number written without point or exponent: *)
(* int() raises ValueError, which is no JSONDecodeError, on a literal of   *)
(* more than IntMaxStrDigits digits                                        *)
IntLiteralTooLong(x) ==
    /\ x.j = "number"
    /\ x.lit \notin {"NaN", "Infinity", "-Infinity"}
    /\ PointAt(x.lit) = {} /\ ExponentAt(x.lit) = {}
    /\ Len(x.lit) - (IF Char(x.lit, 1) = "-" THEN 1 ELSE 0) > IntMaxStrDigits
JsonLoadsRaises(doc) ==
    CASE doc.j = "object" -> \E k \in DOMAIN doc.val : IntLiteralTooLong(doc.val[k])
      [] doc.j = "array" -> FALSE
      [] OTHER -> IntLiteralTooLong(doc)

(* The loop over the rows after the header.  A row that does not unpack    *)
(* into two cells, whose JSON has an int too long to read, whose JSON is   *)
(* no object, or whose object has the key                                  *)
(* 'self' (Student(ID=student_id, **student_data) then gets two values for *)
(* self: TypeError) raises an error the outer handler catches: loading     *)
(* ends there.  A cell that is not JSON raises JSONDecodeError: that row   *)
(* alone is skipped.                                                       *)
RECURSIVE LoadRows(_, _, _)
LoadRows(rows, i, acc) ==
    IF i > Len(rows) THEN acc
    ELSE LET row == rows[i] IN
         IF row = <<>> THEN LoadRows(rows, i + 1, acc)
         ELSE IF Len(row) # 2 THEN acc
         ELSE IF ~IsJson(row[2]) THEN LoadRows(rows, i + 1, acc)
         ELSE IF JsonLoadsRaises(row[2].doc) THEN acc
         ELSE IF row[2].doc.j # "object" THEN acc
         ELSE LET Loaded(student_data) ==
                      IF Has(student_data, "self") THEN acc
                      ELSE LoadRows(rows, i + 1,
                                    Append(acc, LoadedStudent(row[1].text, student_data)))
              IN  Loaded(FixRecord(json_loads_dict(row[2].doc)))

(* sub in s, of two texts *)
Contains(s, sub) == \E i \in 1..(Len(s) - Len(sub) + 1) : SubSeq(s, i, i + Len(sub) - 1) = sub

(* json.loads(header[1]): a list of names for an array, a dict for an      *)
(* object, else the str, number, bool or None the text denotes             *)
HeaderLoaded(doc) ==
    CASE doc.j = "array" -> doc.keys
      [] doc.j = "object" -> json_loads_dict(doc)
      [] OTHER -> FromJsonScalar(doc)

(* 'RollNo' in self.columns and 'Roll Number' not in self.columns, for the *)
(* value the header gave: items of a list, keys of a dict, parts of a str  *)
HeaderNeedsFix(doc) ==
    CASE doc.j = "array" -> "RollNo" \in Range(doc.keys) /\ "Roll Number" \notin Range(doc.keys)
      [] doc.j = "object" -> "RollNo" \in DOMAIN doc.val /\ "Roll Number" \notin DOMAIN doc.val
      [] doc.j = "string" -> Contains(doc.lit, "RollNo") /\ ~Contains(doc.lit, "Roll Number")
      [] OTHER -> FALSE

(* the same test on a number, a bool or None raises TypeError: the loaded  *)
(* value stays in self.columns and no row is read                          *)
HeaderRaises(doc) == doc.j \notin {"array", "object", "string"}

(* self.columns after the header: the comprehension of the fix goes over   *)
(* the items of a list, the keys of a dict, the characters of a str and    *)
(* makes a list; without the fix the loaded value stays as it is           *)
ColumnsOfHeader(doc) ==
    IF ~HeaderNeedsFix(doc) THEN HeaderLoaded(doc)
    ELSE CASE doc.j = "array" -> FixColumns(doc.keys)
           [] doc.j = "object" -> FixColumns(doc.keys)
           [] OTHER -> PyChars(doc.lit)

(* StudentManager._load_data on a store holding cols, types, studs *)
load_data(f, cols, types, studs) ==
    IF ~f.exists THEN [columns |-> cols, column_types |-> types, students |-> studs]
    ELSE IF f.rows = <<>> THEN [columns |-> cols, column_types |-> types, students |-> studs]
    ELSE LET header == f.rows[1] IN
         IF ~(Len(header) > 1)
         THEN [columns |-> cols, column_types |-> types, students |-> studs]
         ELSE IF ~IsJson(header[2]) \/ JsonLoadsRaises(header[2].doc)
         THEN [columns |-> cols, column_types |-> types, students |-> studs]
         ELSE [columns |-> ColumnsOfHeader(header[2].doc),
               column_types |-> default_column_types,
               students |-> IF HeaderRaises(header[2].doc) THEN studs
                            ELSE LoadRows(f.rows, 2, studs)]

(* self.columns is a list after _load_data on file f from an empty store:  *)
(* the header was not read, or it is an array, or the fix made a list      *)
LoadsList(f) ==
    \/ ~f.exists
    \/ f.rows = <<>>
    \/ ~(Len(f.rows[1]) > 1)
    \/ ~IsJson(f.rows[1][2])
    \/ JsonLoadsRaises(f.rows[1][2].doc)
    \/ f.rows[1][2].doc.j = "array"
    \/ HeaderNeedsFix(f.rows[1][2].doc)

(* StudentManager.__init__: an empty store, then _load_data *)
NewManager(f) == load_data(f, <<>>, EmptyMap, <<>>)

(* a check that lets every ID through *)
any_id_is_unique(studs, student_id) == TRUE

check_unique_id(studs, student_id) ==
    \A i \in 1..Len(studs) : ~PyEq(studs[i].val["ID"], StrV(student_id))

(* a check that lets every roll number through *)
any_roll_number_is_unique(studs, roll_number) == TRUE

check_unique_roll_number(studs, roll_number) ==
    \A i \in 1..Len(studs) : ~PyEq(DictGet(studs[i], "Roll Number"), roll_number)

(* next((i for s in students if s.data.get("ID") == student_id), None); 0 for None *)
FindStudent(studs, student_id) ==
    LET First(hits) == IF hits = {} THEN 0 ELSE CHOOSE i \in hits : \A j \in hits : i <= j
    IN  First({i \in 1..Len(studs) : PyEq(DictGet(studs[i], "ID"), StrV(student_id))})

(* What the handlers do with self.columns, whatever json.loads made of     *)
(* the header.  Iterating, len() and 'in' work on a list, a dict (its      *)
(* keys) and a str (its characters, and for 'in' its substrings) and raise *)
(* TypeError on a number, a bool and None.                                 *)
IsIterable(cols) == ColumnsKind(cols) \in {"list", "dict", "str"}
ColumnItems(cols) ==
    LET Of(kind) == CASE kind = "list" -> cols
                      [] kind = "dict" -> cols.keys
                      [] kind = "str" -> PyChars(cols.s)
                      [] OTHER -> <<>>
    IN  Of(ColumnsKind(cols))
InColumns(name, cols) ==
    LET Of(kind) == CASE kind = "list" -> name \in Range(cols)
                      [] kind = "dict" -> Has(cols, name)
                      [] OTHER -> Contains(cols.s, name)
    IN  Of(ColumnsKind(cols))
(* 'not self.columns': empty, zero, False and None are false *)
IsFalsy(cols) ==
    LET Of(kind) == CASE kind = "list" -> cols = <<>>
                      [] kind = "dict" -> cols.keys = <<>>
                      [] kind = "str" -> cols.s = ""
                      [] kind \in {"int", "float"} -> cols.s = "0"
                      [] kind = "bool" -> cols.n = 0
                      [] OTHER -> TRUE
    IN  Of(ColumnsKind(cols))
IsList(cols) == ColumnsKind(cols) = "list"

(* self.column_types.get(column, 'str') *)
TypeOf(types, column) == IF column \in DOMAIN types THEN types[column] ELSE "str"

RemoveAt(sq, i) == Tuple([j \in 1..(Len(sq) - 1) |-> IF j < i THEN sq[j] ELSE sq[j + 1]])
InsertAt(sq, i, x) ==
    Tuple([j \in 1..(Len(sq) + 1) |-> IF j < i THEN sq[j] ELSE IF j = i THEN x ELSE sq[j - 1]])
IndexOf(sq, x) == CHOOSE i \in 1..Len(sq) : sq[i] = x /\ \A j \in 1..(i - 1) : sq[j] # x
(* list.remove(x): the first occurrence *)
ListRemove(sq, x) == RemoveAt(sq, IndexOf(sq, x))

----------------------------------------------------------------------------
(* The files.  fs maps the path of every file and directory there is to    *)
(* what is there.  A path is the sequence of names the system walks: <<>>  *)
(* is the working directory, a path below the root starts with "/", and a  *)
(* path above the working directory is a sequence of "..".  The working    *)
(* directory, the directories above it and the root are there always, and  *)
(* where in the tree the working directory lies is not known: no path      *)
(* through the root or through .. names a file below it.                   *)

EmptyFs == [key \in {} |-> NoFile]
NameMax == 255        \* bytes in a file name (ENAMETOOLONG beyond)
PathMax == 4096       \* bytes in a path, its final NUL counted

(* the names of a path: the texts between its slashes *)
Slashes(p) == {i \in 1..Len(p) : Char(p, i) = "/"}
Names(p) ==
    LET cuts == Slashes(p)
        Cut(k) == IF k = 0 THEN 0
                  ELSE IF k > Cardinality(cuts) THEN Len(p) + 1
                  ELSE CHOOSE i \in cuts : Cardinality({j \in cuts : j < i}) = k - 1
    IN  Tuple([k \in 1..(Cardinality(cuts) + 1) |-> SubSeq(p, Cut(k - 1) + 1, Cut(k) - 1)])

Above(key) == \A i \in 1..Len(key) : key[i] = ".."
AlwaysThere(key) == Above(key) \/ key = <<"/">>
ThereIs(files, key) == AlwaysThere(key) \/ key \in DOMAIN files
IsDirAt(files, key) == AlwaysThere(key) \/ (key \in DOMAIN files /\ files[key].dir)
Parent(key) == IF Above(key) THEN Append(key, "..")
               ELSE IF key = <<"/">> THEN key
               ELSE Front(key)

(* the walk along the names of a path: each name is looked up in a         *)
(* directory, so the walk fails where it stands on a file or on nothing    *)
RECURSIVE Walk(_, _, _, _)
Walk(files, names, i, at) ==
    IF i > Len(names) THEN [ok |-> TRUE, key |-> at]
    ELSE IF ~IsDirAt(files, at) \/ Len(names[i]) > NameMax THEN [ok |-> FALSE, key |-> at]
    ELSE Walk(files, names, i + 1,
              CASE names[i] \in {"", "."} -> at
                [] names[i] = ".." -> Parent(at)
                [] OTHER -> Append(at, names[i]))

(* the place a path names: ok is FALSE when the walk fails *)
Lookup(files, path) ==
    IF path = "" \/ Len(path) >= PathMax THEN [ok |-> FALSE, key |-> <<>>]
    ELSE Walk(files, Names(path), 1, IF Char(path, 1) = "/" THEN <<"/">> ELSE <<>>)

(* what there is at a path *)
EntryAt(files, path) ==
    LET Of(r) == IF ~r.ok \/ ~ThereIs(files, r.key) THEN NoFile
                 ELSE IF AlwaysThere(r.key) THEN Directory
                 ELSE files[r.key]
    IN  Of(Lookup(files, path))

(* os.path.exists(path) *)
path_exists(files, path) == EntryAt(files, path).exists

(* open(path, 'w') succeeds: the walk reaches the name and no directory    *)
(* has it                                                                  *)
CanWrite(files, path) ==
    LET Of(r) == r.ok /\ ~IsDirAt(files, r.key) IN Of(Lookup(files, path))
(* the files once content is written to path *)
Written(files, path, content) == MapSet(files, Lookup(files, path).key, content)

(* posixpath.split and posixpath.dirname *)
RStripSlashes(head) ==
    LET kept == {i \in 1..Len(head) : Char(head, i) # "/"}
    IN  IF kept = {} THEN head
        ELSE SubSeq(head, 1, CHOOSE i \in kept : \A j \in kept : j <= i)
path_split(p) ==
    LET Cut(i) == [head |-> RStripSlashes(SubSeq(p, 1, i)), tail |-> SubSeq(p, i + 1, Len(p))]
    IN  IF Slashes(p) = {} THEN Cut(0)
        ELSE Cut(CHOOSE i \in Slashes(p) : \A j \in Slashes(p) : j <= i)
dirname(p) == path_split(p).head

(* os.mkdir(name): the files after it, and the error it raises ("" when it *)
(* raises none)                                                            *)
mkdir(files, name) ==
    LET Of(r) == IF ~r.ok THEN [fs |-> files, err |-> "OSError"]
                 ELSE IF ThereIs(files, r.key) THEN [fs |-> files, err |-> "FileExistsError"]
                 ELSE [fs |-> MapSet(files, r.key, Directory), err |-> ""]
    IN  Of(Lookup(files, RStripSlashes(name)))

(* os.makedirs(name): the directories above name are made first, those     *)
(* that are missing; FileExistsError from that part is passed over, and    *)
(* any other error ends the call                                           *)
RECURSIVE makedirs(_, _)
makedirs(files, name) ==
    LET first == path_split(name)
        parts == IF first.tail = "" THEN path_split(first.head) ELSE first
        Made(r) == IF r.err \notin {"", "FileExistsError"} THEN r
                   ELSE IF parts.tail = "." THEN [fs |-> r.fs, err |-> ""]
                   ELSE mkdir(r.fs, name)
    IN  IF parts.head # "" /\ parts.tail # "" /\ ~path_exists(files, parts.head)
        THEN Made(makedirs(files, parts.head))
        ELSE mkdir(files, name)

(* utils.ensure_directory_exists(filepath): ok is what it returns *)
ensure_directory_exists(files, filepath) ==
    LET Tried(r) == [fs |-> r.fs, ok |-> r.err = ""]
    IN  IF dirname(filepath) # "" /\ ~path_exists(files, dirname(filepath))
        THEN Tried(makedirs(files, dirname(filepath)))
        ELSE [fs |-> files, ok |-> TRUE]

(* utils.get_csv_files_in_directory(): the names of the working directory  *)
(* that end in .csv, of files and of directories                           *)
EndsWithCsv(p) == Len(p) >= 4 /\ SubSeq(p, Len(p) - 3, Len(p)) = ".csv"
csv_files_in_directory(files) ==
    {key[1] : key \in {k \in DOMAIN files : Len(k) = 1 /\ EndsWithCsv(k[1])}}

(* utils.normalize_file_path *)
normalize_file_path(p) == IF EndsWithCsv(p) THEN p ELSE p \o ".csv"

(* config.json as utils.save_config writes it *)
ConfigFile(path) ==
    [exists |-> TRUE, dir |-> FALSE,
     rows |-> <<<<JsonCell(json_dumps_dict(DictSet(EmptyDict, "default_file_path", StrV(path))))>>>>]

(* utils.load_config and config.get('default_file_path', 'students.csv'):  *)
(* the path config.json names, when config.json is a file holding a JSON   *)
(* object with that key (whose value is a text); any error of reading it   *)
(* leaves the default                                                      *)
default_file_path(files) ==
    LET Of(f) ==
            IF /\ f.exists /\ ~f.dir
               /\ Len(f.rows) = 1 /\ Len(f.rows[1]) = 1 /\ IsJson(f.rows[1][1])
               /\ f.rows[1][1].doc.j = "object"
               /\ "default_file_path" \in DOMAIN f.rows[1][1].doc.val
            THEN FromJsonScalar(f.rows[1][1].doc.val["default_file_path"]).s
            ELSE "students.csv"
    IN  Of(EntryAt(files, "config.json"))

(* utils.save_config({'default_file_path': path}): ok is what it returns *)
save_config(files, path) ==
    IF CanWrite(files, "config.json")
    THEN [fs |-> Written(files, "config.json", ConfigFile(path)), ok |-> TRUE]
    ELSE [fs |-> files, ok |-> FALSE]

----------------------------------------------------------------------------
(* The handlers of StudentManager, one step per input() call.  A step is   *)
(* a function of the state S (a record of the program's variables) and     *)
(* the line read.                                                          *)

EOF == "<EOF>"
TypeNames == {"str", "int", "float"}
default_columns ==
    [keys |-> <<"Name", "Roll Number", "Age", "Email", "Phone", "Address", "Class", "Grades">>,
     val |-> default_column_types]

LocInit ==
    [student_data |-> EmptyDict,      \* add_student
     custom_columns |-> [keys |-> <<>>, val |-> [k \in {} |-> ""]],  \* _setup_new_file
     col_name |-> "",                 \* _setup_new_file
     student |-> 0,                   \* update_student: index of the record found
     k |-> 0,                         \* position of the loop that is prompting
     new_column |-> "",               \* add_column
     column_to_delete |-> "",         \* delete_column
     column_index |-> 0,              \* replace_column (0-based, as in the source)
     column_to_replace |-> "",        \* replace_column
     new_column_name |-> "",          \* replace_column
     current_type |-> "",             \* replace_column
     new_type |-> "",                 \* replace_column
     csv_files |-> <<>>,              \* change_file_path
     new_file_path |-> ""]            \* change_file_path ("" outside it)

Cur ==
    [columns |-> columns, column_types |-> column_types, students |-> students,
     fs |-> fs, pc |-> pc, loc |-> loc, msg |-> msg, nsaves |-> nsaves,
     file_path |-> file_path, running |-> running]

(* what there is at path, as os.path.exists and open see it *)
FileAt(S, path) == EntryAt(S.fs, path)
(* os.path.exists(self.file_path) *)
FileExists(S) == path_exists(S.fs, S.file_path)

(* StudentManager._save_data: the directory of file_path is made when it   *)
(* is missing, then the file is rewritten whole.  An error of either part  *)
(* is caught and reported, and the file is not written.                    *)
Save(S) ==
    LET directory == dirname(S.file_path)
        Write(r) == IF r.err # "" \/ ~CanWrite(r.fs, S.file_path) THEN r.fs
                    ELSE Written(r.fs, S.file_path, save_data(S.columns, S.students))
    IN  [S EXCEPT !.fs = Write(IF directory # "" /\ ~path_exists(S.fs, directory)
                               THEN makedirs(S.fs, directory)
                               ELSE [fs |-> S.fs, err |-> ""]),
                  !.nsaves = @ + 1]
Return(S, m) == [S EXCEPT !.pc = "menu", !.loc = LocInit, !.msg = m]
Stay(S, m) == [S EXCEPT !.msg = m]
Goto(S, p) == [S EXCEPT !.pc = p, !.msg = ""]
(* an exception that nothing catches (run catches EOFError only): the      *)
(* traceback is printed and the program ends, the store and the files as   *)
(* they were                                                               *)
Raise(S) == [S EXCEPT !.pc = "menu", !.loc = LocInit, !.msg = "", !.running = FALSE]

(* change_file_path once the file at the new path is loaded or set up:    *)
(* 'File path changed to' is printed and the last prompt asked             *)
PathChanged(S) == [S EXCEPT !.pc = "path_default", !.msg = "path_changed"]

(* ---- _setup_new_file (called by add_student when the file is missing,  *)
(* and by change_file_path, which goes on to its last prompt)              *)

SetupDone(S, cols, types) ==
    IF S.loc.new_file_path = ""
    THEN Goto(Save([S EXCEPT !.columns = cols, !.column_types = types, !.loc = LocInit]),
              "add_id")
    ELSE PathChanged(Save([S EXCEPT !.columns = cols, !.column_types = types,
                                    !.loc = [LocInit EXCEPT
                                                !.new_file_path = S.loc.new_file_path]]))

SetupChoice(S, ln) ==
    CASE ln = "1" -> SetupDone(S, default_columns.keys, default_columns.val)
      [] ln = "2" ->
            Goto([S EXCEPT !.loc = [LocInit EXCEPT !.new_file_path = S.loc.new_file_path]],
                 "setup_name")
      [] OTHER -> Stay(S, "invalid_choice")

(* a setup that takes the custom columns as entered, adding nothing *)
SetupNameAddingNothing(S, ln) ==
    IF PyLower(ln) = "done"
    THEN LET cc == S.loc.custom_columns IN
         IF cc.keys = <<>> THEN SetupDone(S, default_columns.keys, default_columns.val)
         ELSE SetupDone(S, cc.keys, cc.val)
    ELSE IF PyStrip(ln) = "" THEN Stay(S, "empty_name")
    ELSE Goto([S EXCEPT !.loc.col_name = ln], "setup_type")

SetupName(S, ln) ==
    IF PyLower(ln) = "done"
    THEN LET cc == S.loc.custom_columns
             Done(schema) == SetupDone(S, schema.keys, schema.val)
         IN  Done(IF cc.keys = <<>> THEN default_columns
                  ELSE IF Has(cc, "Roll Number") THEN cc
                  ELSE DictSet(cc, "Roll Number", "int"))
    ELSE IF PyStrip(ln) = "" THEN Stay(S, "empty_name")
    ELSE Goto([S EXCEPT !.loc.col_name = ln], "setup_type")

SetupType(S, ln) ==
    LET Typed(col_type) ==
            IF col_type \in TypeNames
            THEN Goto([S EXCEPT !.loc.custom_columns = DictSet(@, S.loc.col_name, col_type)],
                      "setup_name")
            ELSE Stay(S, "invalid_type")
    IN  Typed(PyLower(ln))

(* ---- add_student *)

(* the next column at or after position k that is not 'ID' *)
RECURSIVE NextField(_, _)
NextField(cols, k) ==
    IF k > Len(cols) THEN k ELSE IF cols[k] # "ID" THEN k ELSE NextField(cols, k + 1)

(* student = Student(...) with the fields as keyword arguments: a field   *)
(* named 'self' is a second value for the first parameter of __init__,     *)
(* which raises TypeError                                                  *)
AddFinish(S) ==
    IF Has(S.loc.student_data, "self") THEN Raise(S)
    ELSE Return(Save([S EXCEPT !.students = Append(@, S.loc.student_data)]), "student_added")

(* for column in self.columns *)
AddAdvance(S, k) ==
    LET To(next, n) == IF next > n THEN AddFinish(S)
                       ELSE Goto([S EXCEPT !.loc.k = next], "add_field")
        Over(cols) == To(NextField(cols, k), Len(cols))
    IN  IF ~IsIterable(S.columns) THEN Raise(S) ELSE Over(ColumnItems(S.columns))

AddId(S, ln) ==
    LET Read(student_id) ==
            IF ~PyIsDigit(student_id) THEN Stay(S, "id_not_numeric")
            ELSE IF ~check_unique_id(S.students, student_id) THEN Stay(S, "id_exists")
            ELSE AddAdvance([S EXCEPT !.loc.student_data =
                                          DictSet(EmptyDict, "ID", StrV(student_id))], 1)
    IN  Read(PyStrip(ln))

AddField(S, ln) ==
    LET column == ColumnItems(S.columns)[S.loc.k]
        Read(r) ==
            IF ~r.ok THEN Stay(S, "invalid_value")
            ELSE IF column = "Roll Number" /\ ~check_unique_roll_number(S.students, r.value)
            THEN Stay(S, "roll_exists")
            ELSE AddAdvance([S EXCEPT !.loc.student_data = DictSet(@, column, r.value)],
                            S.loc.k + 1)
    IN  Read(get_valid_input(column, TypeOf(S.column_types, column), ln))

(* ---- update_student *)

RECURSIVE NextKey(_, _)
NextKey(keys, k) ==
    IF k > Len(keys) THEN k ELSE IF keys[k] # "ID" THEN k ELSE NextKey(keys, k + 1)

UpdateAdvance(S, k) ==
    LET keys == S.students[S.loc.student].keys
        To(next) == IF next > Len(keys) THEN Return(Save(S), "student_updated")
                    ELSE Goto([S EXCEPT !.loc.k = next], "update_field")
    IN  To(NextKey(keys, k))

UpdateId(S, ln) ==
    LET Found(student) ==
            IF student = 0 THEN Return(S, "student_not_found")
            ELSE UpdateAdvance([S EXCEPT !.loc.student = student], 1)
    IN  Found(FindStudent(S.students, ln))

UpdatePrompt(key) == "new " \o key

(* an update_student that writes the new value into the first record *)
UpdateFieldOfFirst(S, ln) ==
    LET i == S.loc.student
        key == S.students[i].keys[S.loc.k]
        value == S.students[i].val[key]
        r == get_valid_input(UpdatePrompt(key), TypeOf(S.column_types, key), ln)
    IN  IF ~r.ok THEN Stay(S, "invalid_value")
        ELSE IF key = "Roll Number" /\ ~PyEq(r.value, value)
                /\ ~check_unique_roll_number(S.students, r.value)
        THEN Stay(S, "roll_exists")
        ELSE UpdateAdvance([S EXCEPT !.students[1] = DictSet(@, key, r.value)], S.loc.k + 1)

UpdateField(S, ln) ==
    LET i == S.loc.student
        key == S.students[i].keys[S.loc.k]
        value == S.students[i].val[key]
        Read(r) ==
            IF ~r.ok THEN Stay(S, "invalid_value")
            ELSE IF key = "Roll Number" /\ ~PyEq(r.value, value)
                    /\ ~check_unique_roll_number(S.students, r.value)
            THEN Stay(S, "roll_exists")
            ELSE UpdateAdvance([S EXCEPT !.students[i] = DictSet(@, key, r.value)],
                               S.loc.k + 1)
    IN  Read(get_valid_input(UpdatePrompt(key), TypeOf(S.column_types, key), ln))

(* ---- delete_student *)

(* a delete_student that removes the first record once the ID is found *)
DeleteIdRemovingFirst(S, ln) ==
    IF FindStudent(S.students, ln) = 0 THEN Return(S, "student_not_found")
    ELSE Return(Save([S EXCEPT !.students = RemoveAt(@, 1)]), "student_deleted")

DeleteId(S, ln) ==
    LET Found(student) ==
            IF student = 0 THEN Return(S, "student_not_found")
            ELSE Return(Save([S EXCEPT !.students = RemoveAt(@, student)]), "student_deleted")
    IN  Found(FindStudent(S.students, ln))

(* ---- add_column *)

(* an add_column that does not look for the name in the column list *)
AddColAnyNewName(S, ln) ==
    IF PyStrip(ln) = "" THEN Return(S, "empty_name")
    ELSE IF ~IsIterable(S.columns) THEN Raise(S)
    ELSE Goto([S EXCEPT !.loc.new_column = ln], "addcol_position")

AddColName(S, ln) ==
    IF PyStrip(ln) = "" THEN Return(S, "empty_name")
    ELSE IF ~IsIterable(S.columns) THEN Raise(S)
    ELSE IF InColumns(ln, S.columns) THEN Return(S, "column_exists")
    ELSE Goto([S EXCEPT !.loc.new_column = ln], "addcol_position")

(* self.columns.insert(index - 1, new_column): a dict and a str have no    *)
(* insert and no append (AttributeError)                                   *)
AddColInsert(S, index) ==
    IF ~IsList(S.columns) THEN Raise(S)
    ELSE Goto([S EXCEPT !.columns = InsertAt(@, index, S.loc.new_column)], "addcol_type")

AddColPosition(S, ln) ==
    LET n == Len(ColumnItems(S.columns)) IN
    CASE ln = "1" -> AddColInsert(S, 1)
      [] ln = "2" -> AddColInsert(S, n + 1)
      [] ln = "3" -> IF n > 0 THEN Goto(S, "addcol_index") ELSE AddColInsert(S, n + 1)
      [] OTHER -> Stay(S, "invalid_choice")

(* an add_column whose index may not be one past the last column *)
AddColIndexWithin(S, ln) ==
    IF ~PyIntOk(ln) THEN Stay(S, "invalid_number")
    ELSE IF 1 <= PyInt(ln) /\ PyInt(ln) <= Len(ColumnItems(S.columns))
    THEN AddColInsert(S, PyInt(ln))
    ELSE Stay(S, "out_of_range")

AddColIndex(S, ln) ==
    LET At(index) ==
            IF 1 <= index /\ index <= Len(ColumnItems(S.columns)) + 1
            THEN AddColInsert(S, index)
            ELSE Stay(S, "out_of_range")
    IN  IF ~PyIntOk(ln) THEN Stay(S, "invalid_number") ELSE At(PyInt(ln))

AddColFinish(S) == Return(Save(S), "column_added")

(* an add_column that saves after every record's value *)
AddColSavingEachRecord(S, k) ==
    IF k > Len(S.students) THEN AddColFinish(S)
    ELSE Goto(Save([S EXCEPT !.loc.k = k]), "addcol_value")

AddColAdvance(S, k) ==
    IF k > Len(S.students) THEN AddColFinish(S)
    ELSE Goto([S EXCEPT !.loc.k = k], "addcol_value")

AddColType(S, ln) ==
    LET Typed(new_column_type) ==
            AddColAdvance(
                [S EXCEPT !.column_types =
                    MapSet(@, S.loc.new_column,
                           IF new_column_type \notin TypeNames THEN "str" ELSE new_column_type)],
                1)
    IN  Typed(PyLower(PyStrip(ln)))

AddColValue(S, ln) ==
    LET new_column == S.loc.new_column
        Read(r) ==
            IF ~r.ok THEN Stay(S, "invalid_value")
            ELSE AddColAdvance([S EXCEPT !.students[S.loc.k] = DictSet(@, new_column, r.value)],
                               S.loc.k + 1)
    IN  Read(get_valid_input(new_column, S.column_types[new_column], ln))

(* ---- delete_column *)

(* the protected list of replace_column used for delete_column *)
only_id_protected == {"ID"}

delete_protected_columns == {"Roll Number", "ID"}

(* self.columns[column_index] is an item of a list and a character of a   *)
(* str; on a dict, whose keys are names, it raises KeyError                *)
DelColChoice(S, ln) ==
    LET Picked(column_to_delete) ==
            IF column_to_delete \in delete_protected_columns THEN Stay(S, "protected")
            ELSE Goto([S EXCEPT !.loc.column_to_delete = column_to_delete], "delcol_confirm")
        At(column_index) ==
            IF 0 <= column_index /\ column_index < Len(ColumnItems(S.columns))
            THEN IF ColumnsKind(S.columns) = "dict" THEN Raise(S)
                 ELSE Picked(ColumnItems(S.columns)[column_index + 1])
            ELSE Stay(S, "out_of_range")
    IN  IF ln = "0" THEN Return(S, "cancelled")
        ELSE IF ~PyIntOk(ln) THEN Stay(S, "invalid_number")
        ELSE At(PyInt(ln) - 1)

DeleteColumn(S, column_to_delete) ==
    [S EXCEPT !.columns = ListRemove(@, column_to_delete),
              !.column_types = MapDel(@, column_to_delete),
              !.students = Tuple([i \in 1..Len(@) |-> DictDel(@[i], column_to_delete)])]

(* self.columns.remove: a str has no remove (AttributeError) *)
DelColConfirm(S, ln) ==
    IF PyLower(ln) # "y" THEN Return(S, "cancelled")
    ELSE IF ~IsList(S.columns) THEN Raise(S)
    ELSE Return(Save(DeleteColumn(S, S.loc.column_to_delete)), "column_deleted")

(* ---- replace_column *)

replace_protected_columns == {"ID"}

RepColChoice(S, ln) ==
    LET Picked(column_index, column_to_replace) ==
            IF column_to_replace \in replace_protected_columns THEN Stay(S, "protected")
            ELSE Goto([S EXCEPT !.loc.column_index = column_index,
                                !.loc.column_to_replace = column_to_replace],
                      "repcol_name")
        At(column_index) ==
            IF 0 <= column_index /\ column_index < Len(ColumnItems(S.columns))
            THEN IF ColumnsKind(S.columns) = "dict" THEN Raise(S)
                 ELSE Picked(column_index, ColumnItems(S.columns)[column_index + 1])
            ELSE Stay(S, "out_of_range")
    IN  IF ln = "0" THEN Return(S, "cancelled")
        ELSE IF ~PyIntOk(ln) THEN Stay(S, "invalid_number")
        ELSE At(PyInt(ln) - 1)

(* a replace_column that does not look for the new name in the column list *)
RepColAnyNewName(S, ln) ==
    IF PyStrip(ln) = "" THEN Return(S, "empty_name")
    ELSE Goto([S EXCEPT !.loc.new_column_name = ln,
                        !.loc.current_type = TypeOf(S.column_types, S.loc.column_to_replace)],
              "repcol_change")

RepColName(S, ln) ==
    IF PyStrip(ln) = "" THEN Return(S, "empty_name")
    ELSE IF InColumns(ln, S.columns)
    THEN [S EXCEPT !.pc = "repcol_choice", !.msg = "column_exists"]
    ELSE Goto([S EXCEPT !.loc.new_column_name = ln,
                        !.loc.current_type = TypeOf(S.column_types, S.loc.column_to_replace)],
              "repcol_change")

RepColChange(S, ln) ==
    IF PyLower(ln) = "y" THEN Goto(S, "repcol_type")
    ELSE Goto([S EXCEPT !.loc.new_type = S.loc.current_type], "repcol_confirm")

(* the type is kept as typed: only its lower-case form is compared *)
RepColType(S, ln) ==
    IF PyLower(ln) \in TypeNames THEN Goto([S EXCEPT !.loc.new_type = ln], "repcol_confirm")
    ELSE Stay(S, "invalid_type")

RepColFinish(S) == Return(Save(S), "column_replaced")

(* the next record at or after position k that holds the old column *)
RECURSIVE NextHolder(_, _, _)
NextHolder(studs, old, k) ==
    IF k > Len(studs) THEN k
    ELSE IF Has(studs[k], old) THEN k ELSE NextHolder(studs, old, k + 1)

RepColAdvance(S, k) ==
    LET To(next) == IF next > Len(S.students) THEN RepColFinish(S)
                    ELSE Goto([S EXCEPT !.loc.k = next], "repcol_value")
    IN  To(NextHolder(S.students, S.loc.column_to_replace, k))

(* a move that leaves the old field in the record *)
CopyField(data, old, new, value) == DictSet(data, new, value)

(* student.data[new] = value; del student.data[old] *)
MoveField(data, old, new, value) == DictDel(DictSet(data, new, value), old)

(* a replace_column that goes ahead whatever the answer to "Are you sure" *)
RepColWhateverAnswer(S, ln) ==
    LET old == S.loc.column_to_replace
        new == S.loc.new_column_name
        T == [S EXCEPT !.columns[S.loc.column_index + 1] = new,
                       !.column_types = MapSet(MapDel(@, old), new, S.loc.new_type)]
    IN  IF ~IsList(S.columns) THEN Raise(S)
        ELSE IF S.loc.current_type # S.loc.new_type THEN RepColAdvance(T, 1)
        ELSE RepColFinish(
               [T EXCEPT !.students =
                   Tuple([i \in 1..Len(@) |->
                            IF Has(@[i], old) THEN MoveField(@[i], old, new, @[i].val[old])
                            ELSE @[i]])])

(* self.columns[column_index] = new_column_name: a str takes no item      *)
(* assignment (TypeError)                                                  *)
RepColConfirm(S, ln) ==
    IF PyLower(ln) # "y" THEN Return(S, "cancelled")
    ELSE IF ~IsList(S.columns) THEN Raise(S)
    ELSE LET old == S.loc.column_to_replace
             new == S.loc.new_column_name
             Renamed(T) ==
                 IF S.loc.current_type # S.loc.new_type THEN RepColAdvance(T, 1)
                 ELSE RepColFinish(
                        [T EXCEPT !.students =
                            Tuple([i \in 1..Len(@) |->
                                     IF Has(@[i], old)
                                     THEN MoveField(@[i], old, new, @[i].val[old])
                                     ELSE @[i]])])
         IN  Renamed([S EXCEPT !.columns[S.loc.column_index + 1] = new,
                               !.column_types = MapSet(MapDel(@, old), new, S.loc.new_type)])

RepColValue(S, ln) ==
    LET Read(r) ==
            IF ~r.ok THEN Stay(S, "invalid_value")
            ELSE RepColAdvance(
                    [S EXCEPT !.students[S.loc.k] =
                        MoveField(@, S.loc.column_to_replace, S.loc.new_column_name, r.value)],
                    S.loc.k + 1)
    IN  Read(get_valid_input(S.loc.new_column_name, S.loc.new_type, ln))

(* ---- change_file_path *)

ChangePathPrompts == {"change_path", "path_name", "path_overwrite", "path_confirm",
                      "path_select", "path_abs", "path_default"}

(* change_file_path once new_file_path is known: the store is saved to the *)
(* old path, the records are dropped, and what is at the new path is       *)
(* loaded into the store as it is (_load_data catches its own errors) or,  *)
(* when nothing is there, columns and types are reset and _setup_new_file  *)
(* asks for a schema.                                                      *)
ChangeTo(S, new_file_path) ==
    LET Loaded(U, r) ==
            PathChanged([U EXCEPT !.columns = r.columns, !.column_types = r.column_types,
                                  !.students = r.students])
        Moved(U) ==
            IF FileExists(U)
            THEN Loaded(U, load_data(FileAt(U, U.file_path), U.columns, U.column_types,
                                     U.students))
            ELSE Goto([U EXCEPT !.columns = <<>>, !.column_types = EmptyMap], "setup_choice")
        Saved(T) ==
            Moved([T EXCEPT !.file_path = new_file_path,
                            !.students = <<>>,
                            !.loc = [LocInit EXCEPT !.new_file_path = new_file_path]])
    IN  Saved(Save(S))

(* change_file_path, one prompt at a time.  At its first prompt            *)
(* S.loc.csv_files is what get_csv_files_in_directory would return.        *)
ChangePath(S, ln) ==
    LET fresh == [S EXCEPT !.loc = LocInit]
        Named(new_file_path) ==
            IF path_exists(S.fs, new_file_path)
            THEN Goto([S EXCEPT !.loc.new_file_path = new_file_path], "path_overwrite")
            ELSE Goto([S EXCEPT !.loc.new_file_path = new_file_path], "path_confirm")
        Selected(file_index) ==
            IF 0 <= file_index /\ file_index < Len(S.loc.csv_files)
            THEN ChangeTo(S, S.loc.csv_files[file_index + 1])
            ELSE Stay(S, "out_of_range")
        Ensured(new_file_path, r) ==
            IF ~r.ok THEN Return([S EXCEPT !.fs = r.fs], "directory_failed")
            ELSE ChangeTo([S EXCEPT !.fs = r.fs], new_file_path)
        DefaultSet(r) ==
            IF r.ok THEN Return([S EXCEPT !.fs = r.fs], "default_set") ELSE Return(S, "")
    IN  CASE S.pc = "change_path" ->
                CASE ln = "1" -> Goto(fresh, "path_name")
                  [] ln = "2" -> IF S.loc.csv_files = <<>> THEN Return(S, "no_csv_files")
                                 ELSE Goto(S, "path_select")
                  [] ln = "3" -> Goto(fresh, "path_abs")
                  [] ln = "4" -> Return(S, "cancelled")
                  [] OTHER -> Return(S, "invalid_choice")
          [] S.pc = "path_name" ->
                IF PyStrip(ln) = "" THEN Return(S, "empty_path")
                ELSE Named(normalize_file_path(ln))
          [] S.pc = "path_overwrite" ->
                IF PyLower(ln) # "y" THEN Return(S, "cancelled") ELSE Goto(S, "path_confirm")
          [] S.pc = "path_confirm" ->
                IF PyLower(ln) # "y" THEN Return(S, "cancelled")
                ELSE ChangeTo(S, S.loc.new_file_path)
          [] S.pc = "path_select" ->
                IF ln = "0" THEN Return(S, "cancelled")
                ELSE IF ~PyIntOk(ln) THEN Stay(S, "invalid_number")
                ELSE Selected(PyInt(ln) - 1)
          [] S.pc = "path_abs" ->
                IF PyStrip(ln) = "" THEN Return(S, "empty_path")
                ELSE Ensured(normalize_file_path(ln),
                             ensure_directory_exists(S.fs, normalize_file_path(ln)))
          [] S.pc = "path_default" ->
                IF PyLower(ln) = "y" THEN DefaultSet(save_config(S.fs, S.file_path))
                ELSE Return(S, "")

(* ---- run: the menu *)

FileGuarded(S, p) == IF ~FileExists(S) THEN Return(S, "no_file") ELSE Goto(S, p)

(* delete_column and replace_column up to their first prompt: the columns *)
(* are listed with enumerate(self.columns, 1)                              *)
Listed(S, p) ==
    IF ~FileExists(S) THEN Return(S, "no_file")
    ELSE IF IsFalsy(S.columns) THEN Return(S, "no_columns")
    ELSE IF ~IsIterable(S.columns) THEN Raise(S)
    ELSE Goto(S, p)

Menu(S, ln) ==
    LET T == [S EXCEPT !.nsaves = 0, !.loc = LocInit] IN
    CASE ln = "1" -> IF ~FileExists(T) THEN Goto(T, "setup_choice") ELSE Goto(T, "add_id")
      [] ln = "2" -> Return(T, "viewed")
      [] ln = "3" -> FileGuarded(T, "update_id")
      [] ln = "4" -> FileGuarded(T, "delete_id")
      [] ln = "5" -> FileGuarded(T, "addcol_name")
      [] ln = "6" -> Listed(T, "delcol_choice")
      [] ln = "7" -> Listed(T, "repcol_choice")
      [] ln = "8" -> Goto(T, "change_path")
      [] ln = "9" -> [Return(T, "exit") EXCEPT !.running = FALSE]
      [] OTHER -> Return(T, "invalid_choice")

(* ---- main *)

(* StudentManager(path), then run() up to the menu's input() *)
Constructed(S, path) ==
    LET Made(manager) ==
            [S EXCEPT !.columns = manager.columns, !.column_types = manager.column_types,
                      !.students = manager.students, !.file_path = path,
                      !.pc = "menu", !.msg = "loaded"]
    IN  Made(NewManager(FileAt(S, path)))

(* main() up to its first input(): its own, when nothing is at the default *)
(* path, else the menu's                                                   *)
Main(S) ==
    IF ~path_exists(S.fs, default_file_path(S.fs))
    THEN [S EXCEPT !.file_path = default_file_path(S.fs), !.pc = "main_create",
                   !.msg = "not_found"]
    ELSE Constructed(S, default_file_path(S.fs))

(* main() from the answer to 'create a new file?' on: any answer but y     *)
(* makes students.csv the path and writes it to config.json                *)
MainCreate(S, ln) ==
    IF PyLower(ln) # "y"
    THEN Constructed([S EXCEPT !.fs = save_config(S.fs, "students.csv").fs], "students.csv")
    ELSE Constructed(S, S.file_path)

(* input() raises EOFError at the prompt S.pc.  run() catches it and ends  *)
(* the loop.  Inside _setup_new_file called by add_student it is caught    *)
(* before, by add_student's except Exception, which reports that the file  *)
(* could not be created and returns: run() goes on to the menu.  (What the *)
(* menu's input() then gives is the input source's to say: the end again   *)
(* from a file or a pipe, a new line from a terminal.)  main() does not    *)
(* catch it at its own prompt: the program ends there with a traceback.    *)
EndOfInputAt(S) ==
    IF S.pc \in {"setup_choice", "setup_name", "setup_type"} /\ S.loc.new_file_path = ""
    THEN Return(S, "setup_failed")
    ELSE IF S.pc = "main_create" THEN [S EXCEPT !.msg = "", !.running = FALSE]
    ELSE [S EXCEPT !.msg = "eof", !.running = FALSE]

(* The program's reaction to the line ln read at the prompt S.pc *)
Step(S, ln) ==
    CASE S.pc = "menu" -> Menu(S, ln)
      [] S.pc = "main_create" -> MainCreate(S, ln)
      [] S.pc = "setup_choice" -> SetupChoice(S, ln)
      [] S.pc = "setup_name" -> SetupName(S, ln)
      [] S.pc = "setup_type" -> SetupType(S, ln)
      [] S.pc = "add_id" -> AddId(S, ln)
      [] S.pc = "add_field" -> AddField(S, ln)
      [] S.pc = "update_id" -> UpdateId(S, ln)
      [] S.pc = "update_field" -> UpdateField(S, ln)
      [] S.pc = "delete_id" -> DeleteId(S, ln)
      [] S.pc = "addcol_name" -> AddColName(S, ln)
      [] S.pc = "addcol_position" -> AddColPosition(S, ln)
      [] S.pc = "addcol_index" -> AddColIndex(S, ln)
      [] S.pc = "addcol_type" -> AddColType(S, ln)
      [] S.pc = "addcol_value" -> AddColValue(S, ln)
      [] S.pc = "delcol_choice" -> DelColChoice(S, ln)
      [] S.pc = "delcol_confirm" -> DelColConfirm(S, ln)
      [] S.pc = "repcol_choice" -> RepColChoice(S, ln)
      [] S.pc = "repcol_name" -> RepColName(S, ln)
      [] S.pc = "repcol_change" -> RepColChange(S, ln)
      [] S.pc = "repcol_type" -> RepColType(S, ln)
      [] S.pc = "repcol_confirm" -> RepColConfirm(S, ln)
      [] S.pc = "repcol_value" -> RepColValue(S, ln)
      [] S.pc \in ChangePathPrompts -> ChangePath(S, ln)

----------------------------------------------------------------------------
(* The input source: the lines offered at each prompt *)

MenuLines == IF mode = "crud" THEN {"1", "2", "3", "9", "x"}
             ELSE IF mode = "path" THEN {"1", "8", "9"}
             ELSE {"1", "2", "3", "4", "5", "6", "7", "9", "x"}
OperationLines == {"1", "3", "4", "5", "6", "7", "8"}
SchemaLines == {"5", "6", "7"}
SetupChoiceLines == IF mode \in {"crud", "path"} THEN {"1", "2", "x"} ELSE {"2", "x"}
SetupNameLines == IF mode = "crud" THEN {"done", "Age", "Roll Number", "ID", "self", " "}
                  ELSE {"done", "Age", "Roll Number", " "}
SetupTypeLines == IF mode = "crud" THEN {"int", "FLOAT", "str", "bool"} ELSE {"int", "bool"}
IdLines == {"1", "2", "1a"}
NumberLines == {"0", "1", "2", "x"}
ConfirmLines == {"Y", "n"}
AddColNameLines == {"ID", "GPA", "Roll Number", " ", ""}
PositionLines == {"1", "2", "3", "x"}
AddColTypeLines == {"int", "bogus"}
NewNameLines == {"RollNo", "Roll Number", "ID", " "}
RepTypeLines == {"str", "INT"}
(* file names and paths: a new name, the name of the backing file, a name  *)
(* below it (which names nothing while students.csv is a file), another    *)
(* spelling of other.csv, and a path two directories down                  *)
PathNameLines == {"other", "students.csv", "students.csv/x", ""}
PathAbsLines == {"./other.csv", "students.csv/y/x", " "}

(* the lines offered when a value for column is asked *)
ValueLines(column) ==
    LET For(lower) ==
            CASE lower = "roll number" -> IF mode = "crud" THEN {"10", "11", "0", "nan"}
                                          ELSE {"10", "11"}
              [] lower = "age" -> IF mode = "crud" THEN {"20", "3"} ELSE {"20"}
              [] lower = "name" -> {"Ann Lee"}
              [] lower = "email" -> {"a.b@gmail.com"}
              [] lower = "phone" -> {"0123456789"}
              [] lower = "address" -> {"12 Main Street"}
              [] lower = "class" -> {"10A"}
              [] OTHER -> {"5", "B"}
    IN  For(PyLower(column))

----------------------------------------------------------------------------
(* The files a run starts on.  A stored file is                            *)
(* missing, or empty, or has a header row and up to MaxStoredRows further  *)
(* rows.  The header is the one _save_data writes for a Roll Number        *)
(* schema, one of an older file that names the column RollNo, one naming   *)
(* both, a row of one field, or a row whose second cell is a JSON object   *)
(* or a JSON number instead of an array.  The rows are records as          *)
(* _save_data writes them, records of an older file with a RollNo field, a *)
(* record with a field named self, a row whose second cell is no JSON, a   *)
(* row of one cell, a row whose JSON is an array, and a blank line.        *)
MaxStoredRows == 3
SelfRow ==
    <<TextCell("8"),
      JsonCell(to_json(DictSet(DictSet(EmptyDict, "ID", StrV("8")), "self", IntV("80"))))>>
StoredFiles ==
    LET record(id, key, roll) ==
            <<TextCell(id),
              JsonCell(to_json(DictSet(DictSet(EmptyDict, "ID", StrV(id)), key, IntV(roll))))>>
        StoredRows == {record("1", "Roll Number", "10"), record("2", "Roll Number", "20"),
                       record("3", "RollNo", "30"),
                       <<TextCell("7"),
                         JsonCell(to_json(DictSet(DictSet(EmptyDict, "RollNo", IntV("70")),
                                                  "Roll Number", IntV("71"))))>>,
                       SelfRow,
                       <<TextCell("4"), TextCell("{bad")>>,
                       <<TextCell("5")>>,
                       <<TextCell("6"), JsonCell(json_dumps_list(<<"x">>))>>,
                       <<>>}
        Headers == {<<TextCell("Columns"), JsonCell(json_dumps_list(cols))>> :
                        cols \in {<<"Roll Number">>, <<"GPA", "RollNo">>,
                                  <<"RollNo", "Roll Number">>}}
                   \cup {<<TextCell("Columns")>>,
                         <<TextCell("Columns"),
                           JsonCell(to_json(DictSet(EmptyDict, "Name", StrV("x"))))>>,
                         <<TextCell("Columns"), JsonCell(JsonScalar(IntV("5")))>>}
    IN {NoFile, [exists |-> TRUE, dir |-> FALSE, rows |-> <<>>]}
       \cup {[exists |-> TRUE, dir |-> FALSE, rows |-> <<header>> \o rows] :
                header \in Headers,
                rows \in UNION {[1..n -> StoredRows] : n \in 0..MaxStoredRows}}

(* the files with content at name, or without name when content is NoFile *)
WithFile(files, name, content) ==
    IF content.exists THEN MapSet(files, <<name>>, content) ELSE files

(* a stored file of at most one row after its header, whose header is      *)
(* short, or names the Roll Number column, or is no array                  *)
SmallFiles ==
    {f \in StoredFiles :
        /\ Len(f.rows) <= 2
        /\ Len(f.rows) >= 1 =>
              \/ Len(f.rows[1]) = 1
              \/ /\ f.rows[1][2].doc.j = "array"
                 /\ f.rows[1][2].doc.keys = <<"Roll Number">>
              \/ /\ f.rows[1][2].doc.j # "array"
                 /\ Len(f.rows) = 1}

(* the files a run of the menu starts in: none, or, for the runs that      *)
(* change the path, an other.csv that is missing, empty, a header alone    *)
(* of SmallFiles, or the Roll Number header and the record of ID 1         *)
InitialFiles(m) ==
    IF m = "path"
    THEN {WithFile(EmptyFs, "other.csv", f) :
            f \in {g \in SmallFiles :
                     \/ Len(g.rows) <= 1
                     \/ /\ Len(g.rows[1]) = 2 /\ Len(g.rows[2]) = 2
                        /\ g.rows[2][1] = TextCell("1")}}
    ELSE {EmptyFs}

----------------------------------------------------------------------------
(* The state machine *)

(* The state at the first menu of a run started where nothing is at the    *)
(* default path students.csv and there is no config.json that names        *)
(* another: main() asked whether to create a new file, the answer was y,   *)
(* and StudentManager() found nothing to load.  (InitialFiles are the      *)
(* files of the directory then, by the input source of the run.)           *)
Init ==
    /\ mode \in {"schema", "crud", "path"}
    /\ LET Made(manager) ==
               /\ columns = manager.columns
               /\ column_types = manager.column_types
               /\ students = manager.students
       IN  Made(NewManager(NoFile))
    /\ fs \in InitialFiles(mode)
    /\ file_path = "students.csv"
    /\ file = EntryAt(fs, file_path)
    /\ pc = "menu"
    /\ loc = LocInit
    /\ line = "y"
    /\ msg = "loaded"
    /\ nsaves = 0
    /\ nops = 0
    /\ nschema = 0
    /\ running = TRUE
    /\ roll_column = ""

(* the program reads ln at its current prompt and runs to the next prompt *)
Take(S, ln) ==
    /\ columns' = S.columns
    /\ column_types' = S.column_types
    /\ students' = S.students
    /\ fs' = S.fs
    /\ file' = IF S.fs = fs /\ S.file_path = file_path THEN file ELSE FileAt(S, S.file_path)
    /\ pc' = S.pc
    /\ loc' = S.loc
    /\ msg' = S.msg
    /\ nsaves' = S.nsaves
    /\ file_path' = S.file_path
    /\ running' = S.running
    /\ line' = ln
    /\ UNCHANGED mode
    /\ roll_column' =
          IF pc \in {"setup_choice", "setup_name"} /\ S.pc \in {"add_id", "path_default"}
          THEN "Roll Number"
          ELSE IF pc \in {"main", "main_create"} /\ S.pc = "menu"
          THEN IF LoadsList(file') /\ "Roll Number" \in Range(S.columns)
               THEN "Roll Number" ELSE ""
          ELSE IF pc \in {"path_confirm", "path_select", "path_abs"}
                  /\ S.pc \in {"path_default", "setup_choice"}
          THEN IF IsList(S.columns) /\ "Roll Number" \in Range(S.columns)
               THEN "Roll Number" ELSE ""
          ELSE IF S.msg = "column_replaced" /\ loc.column_to_replace = roll_column
          THEN loc.new_column_name
          ELSE IF S.msg = "column_deleted" /\ loc.column_to_delete = roll_column THEN ""
          ELSE roll_column

At(p) == running /\ pc = p

MenuChoice ==
    /\ At("menu")
    /\ \E ln \in MenuLines :
        /\ ln \in OperationLines => nops < (IF mode = "path" THEN MaxPathOps ELSE MaxOps)
        /\ ln \in SchemaLines => nschema < MaxSchemaOps
        /\ ln = "1" => Len(students) < MaxStudents
        /\ Take(Menu(Cur, ln), ln)
        /\ nops' = IF ln \in OperationLines THEN nops + 1 ELSE nops
        /\ nschema' = IF ln \in SchemaLines THEN nschema + 1 ELSE nschema

Read(S, ln) == Take(S, ln) /\ UNCHANGED <<nops, nschema>>

SetupChoicePrompt ==
    At("setup_choice") /\ \E ln \in SetupChoiceLines : Read(SetupChoice(Cur, ln), ln)
SetupNamePrompt ==
    /\ At("setup_name")
    /\ \E ln \in SetupNameLines :
        /\ \/ Len(loc.custom_columns.keys) < MaxCustom
           \/ Has(loc.custom_columns, ln)
           \/ PyLower(ln) = "done"
           \/ PyStrip(ln) = ""
        /\ Read(SetupName(Cur, ln), ln)
SetupTypePrompt ==
    At("setup_type") /\ \E ln \in SetupTypeLines : Read(SetupType(Cur, ln), ln)
AddIdPrompt ==
    At("add_id") /\ \E ln \in IdLines : Read(AddId(Cur, ln), ln)
AddFieldPrompt ==
    /\ At("add_field")
    /\ \E ln \in ValueLines(ColumnItems(columns)[loc.k]) : Read(AddField(Cur, ln), ln)
UpdateIdPrompt ==
    At("update_id") /\ \E ln \in IdLines : Read(UpdateId(Cur, ln), ln)
UpdateFieldPrompt ==
    /\ At("update_field")
    /\ \E ln \in ValueLines(students[loc.student].keys[loc.k]) : Read(UpdateField(Cur, ln), ln)
DeleteIdPrompt ==
    At("delete_id") /\ \E ln \in IdLines : Read(DeleteId(Cur, ln), ln)
AddColNamePrompt ==
    At("addcol_name") /\ \E ln \in AddColNameLines : Read(AddColName(Cur, ln), ln)
AddColPositionPrompt ==
    At("addcol_position") /\ \E ln \in PositionLines : Read(AddColPosition(Cur, ln), ln)
AddColIndexPrompt ==
    At("addcol_index") /\ \E ln \in NumberLines \cup {"3"} : Read(AddColIndex(Cur, ln), ln)
AddColTypePrompt ==
    At("addcol_type") /\ \E ln \in AddColTypeLines : Read(AddColType(Cur, ln), ln)
AddColValuePrompt ==
    At("addcol_value") /\ \E ln \in ValueLines(loc.new_column) : Read(AddColValue(Cur, ln), ln)
DelColChoicePrompt ==
    At("delcol_choice") /\ \E ln \in NumberLines : Read(DelColChoice(Cur, ln), ln)
DelColConfirmPrompt ==
    At("delcol_confirm") /\ \E ln \in ConfirmLines : Read(DelColConfirm(Cur, ln), ln)
RepColChoicePrompt ==
    At("repcol_choice") /\ \E ln \in NumberLines : Read(RepColChoice(Cur, ln), ln)
RepColNamePrompt ==
    At("repcol_name") /\ \E ln \in NewNameLines : Read(RepColName(Cur, ln), ln)
RepColChangePrompt ==
    At("repcol_change") /\ \E ln \in ConfirmLines : Read(RepColChange(Cur, ln), ln)
RepColTypePrompt ==
    At("repcol_type") /\ \E ln \in RepTypeLines : Read(RepColType(Cur, ln), ln)
RepColConfirmPrompt ==
    At("repcol_confirm") /\ \E ln \in ConfirmLines : Read(RepColConfirm(Cur, ln), ln)
RepColValuePrompt ==
    /\ At("repcol_value")
    /\ \E ln \in ValueLines(loc.new_column_name) : Read(RepColValue(Cur, ln), ln)

(* change_file_path: at its first prompt the directory listing comes in    *)
(* any order (os.listdir)                                                  *)
ChangePathPrompt ==
    LET names == csv_files_in_directory(fs)
        listings == {ls \in UNION {[1..n -> names] : n \in 0..Cardinality(names)} :
                        Len(ls) = Cardinality(names) /\ Range(ls) = names}
        lines == CASE pc = "change_path" -> {"1", "2", "3", "4", "x"}
                   [] pc = "path_name" -> PathNameLines
                   [] pc = "path_select" -> NumberLines
                   [] pc = "path_abs" -> PathAbsLines
                   [] OTHER -> ConfirmLines
    IN  /\ running
        /\ pc \in ChangePathPrompts
        /\ \E ln \in lines :
              \E ls \in IF pc = "change_path" THEN listings ELSE {loc.csv_files} :
                  Read(ChangePath([Cur EXCEPT !.loc.csv_files = ls], ln), ln)

(* input() raises EOFError, at any prompt *)
EndOfInput == running /\ pc # "main" /\ Read(EndOfInputAt(Cur), EOF)

CrudNext ==
    \/ MenuChoice
    \/ SetupChoicePrompt
    \/ SetupNamePrompt
    \/ SetupTypePrompt
    \/ AddIdPrompt
    \/ AddFieldPrompt
    \/ UpdateIdPrompt
    \/ UpdateFieldPrompt
    \/ EndOfInput

Next ==
    \/ CrudNext
    \/ DeleteIdPrompt
    \/ AddColNamePrompt
    \/ AddColPositionPrompt
    \/ AddColIndexPrompt
    \/ AddColTypePrompt
    \/ AddColValuePrompt
    \/ DelColChoicePrompt
    \/ DelColConfirmPrompt
    \/ RepColChoicePrompt
    \/ RepColNamePrompt
    \/ RepColChangePrompt
    \/ RepColTypePrompt
    \/ RepColConfirmPrompt
    \/ RepColValuePrompt

(* every operation of the menu, on an input source for column operations *)
SchemaInit == Init /\ mode = "schema"
Spec == SchemaInit /\ [][Next]_vars

(* add and update only, on an input source with more setups and values *)
CrudInit == Init /\ mode = "crud"
SpecCrud == CrudInit /\ [][CrudNext]_vars

(* config.json: missing, as save_config writes it, or a file load_config   *)
(* fails to read (an empty file, a text that is no JSON) or reads no path  *)
(* from (a JSON array)                                                     *)
ConfigFiles ==
    {NoFile, ConfigFile("other.csv"), ConfigFile("students.csv"), ConfigFile("data/new.csv"),
     [exists |-> TRUE, dir |-> FALSE, rows |-> <<>>],
     [exists |-> TRUE, dir |-> FALSE, rows |-> <<<<TextCell("{bad")>>>>],
     [exists |-> TRUE, dir |-> FALSE, rows |-> <<<<JsonCell(json_dumps_list(<<"x">>))>>>>]}

(* The directory main() starts in.  Without config.json, students.csv is   *)
(* any of StoredFiles; with one, students.csv and other.csv are small      *)
(* files, or students.csv is a directory.                                  *)
StartFiles ==
    {WithFile(EmptyFs, "students.csv", f) : f \in StoredFiles}
    \cup {WithFile(WithFile(WithFile(EmptyFs, "students.csv", f), "other.csv", g),
                   "config.json", c) :
             f \in {h \in SmallFiles : Len(h.rows) # 1} \cup {Directory},
             g \in {h \in SmallFiles : Len(h.rows) # 1},
             c \in ConfigFiles \ {NoFile}}

(* main() as it starts *)
LoadInit ==
    /\ columns = <<>>
    /\ column_types = EmptyMap
    /\ students = <<>>
    /\ fs \in StartFiles
    /\ file_path = "students.csv"
    /\ file = EntryAt(fs, file_path)
    /\ pc = "main"
    /\ loc = LocInit
    /\ line = ""
    /\ msg = ""
    /\ nsaves = 0
    /\ nops = 0
    /\ nschema = 0
    /\ running = TRUE
    /\ mode = "load"
    /\ roll_column = ""

(* main() up to its first input(): load_config, the look at the default    *)
(* path and, when something is there, StudentManager() (__init__ and its   *)
(* _load_data) and run() up to the first menu                              *)
Construct == At("main") /\ Read(Main(Cur), line)

(* main()'s prompt 'Would you like to create a new file?', then            *)
(* StudentManager() and run() up to the first menu                         *)
MainCreatePrompt == At("main_create") /\ \E ln \in ConfirmLines : Read(MainCreate(Cur, ln), ln)

SpecLoad == LoadInit /\ [][Construct \/ MainCreatePrompt \/ EndOfInput]_vars

(* add and change_file_path, in a directory with the other.csv of          *)
(* InitialFiles                                                            *)

PathNext ==
    \/ MenuChoice
    \/ SetupChoicePrompt
    \/ SetupNamePrompt
    \/ SetupTypePrompt
    \/ AddIdPrompt
    \/ AddFieldPrompt
    \/ ChangePathPrompt
    \/ EndOfInput
PathInit == Init /\ mode = "path"
SpecPath == PathInit /\ [][PathNext]_vars

(* validate_input on its own: a column name, a declared type and a text   *)
(* are validated, and when the text is accepted the text form of the       *)
(* value is validated under the same name and type.  The texts hold        *)
(* leading zeros, blanks, signs, points, exponents, inf and nan, a tab, a   *)
(* final newline, digits and letters of other scripts, digit texts at the  *)
(* limit of int(), and decimals that no double holds: more digits than a   *)
(* double keeps, an integer above 2^53, a tie between two doubles, and a   *)
(* value below the smallest double.  (A text of more than MaxFloatText     *)
(* characters is read as a float under the names of LongFloatNames only.)  *)
MaxFloatText == 15
LongFloatNames == {"Grades", "Name"}
ArabicThree == Chr(1635)         \* U+0663 ARABIC-INDIC DIGIT THREE
SuperscriptTwo == Chr(178)       \* U+00B2 SUPERSCRIPT TWO
Jose == "Jos" \o Chr(233)        \* ends in U+00E9 LATIN SMALL LETTER E WITH ACUTE
ValidateTexts ==
    {"", "0", "1", "4", "5", "007", "10", "100", "101", "150",
     "1234567890", "12345678901", "00000000001", "0000000000",
     " 5", "-1", "+1", "1.5", "2.50", ".5", "5.", ".", "1a", "abc",
     "Ann Lee", "a.b@gmail.com", "a.b@x.io", "0123456789",
     "12 Main Street", "10A",
     "1e5", "1e-5", "inf", "nan", "-0", "\t5", "1_0", "Ann\tLee", "a.b@gmail.com\n",
     ArabicThree, SuperscriptTwo, Jose,
     Zeros(IntMaxStrDigits - 1) \o "1", Zeros(IntMaxStrDigits) \o "1",
     "1" \o Zeros(IntMaxStrDigits),
     "0.1234567890123456789", "1.0000000000000001", "99.99999999999999999",
     "9007199254740993", "99999999999999991611392", "3e-324"}
ValidateInit ==
    /\ columns = <<>>
    /\ column_types = EmptyMap
    /\ students = <<>>
    /\ fs = EmptyFs
    /\ file_path = "students.csv"
    /\ file = NoFile
    /\ pc = "validate_input"
    /\ loc \in [column_name : {"Roll Number", "roll number", "Age", "Grades", "GPA", "Name",
                                "Email", "Phone", "Address", "Class"},
                 expected_type : {"int", "float", "str", "bool"},
                 user_input : ValidateTexts,
                 result : {Reject},
                 again : {Reject}]
    /\ loc.expected_type = "float" /\ Len(loc.user_input) > MaxFloatText
          => loc.column_name \in LongFloatNames
    /\ line = ""
    /\ msg = ""
    /\ nsaves = 0
    /\ nops = 0
    /\ nschema = 0
    /\ running = TRUE
    /\ mode = "validate"
    /\ roll_column = ""

Validate ==
    /\ \/ /\ pc = "validate_input"
          /\ loc' = [loc EXCEPT !.result = validate_input(loc.column_name, loc.user_input,
                                                          loc.expected_type)]
          /\ pc' = "validated"
       \/ /\ pc = "validated"
          /\ loc.result.ok
          /\ loc' = [loc EXCEPT !.again = validate_input(loc.column_name,
                                                         PyStr(loc.result.value),
                                                         loc.expected_type)]
          /\ pc' = "validated_again"
    /\ UNCHANGED <<columns, column_types, students, fs, file, line, msg, nsaves, nops,
                   nschema, running, mode, roll_column, file_path>>

SpecValidate == ValidateInit /\ [][Validate]_vars

----------------------------------------------------------------------------
(* Properties of the store *)

(* file is what there is at file_path *)
FileIsAtPath == file = EntryAt(fs, file_path)

Records == 1..Len(students)
IdOf(i) == students[i].val["ID"]
AtMenu == pc = "menu"

IdsDiffer == \A i, j \in Records : i # j => ~PyEq(IdOf(i), IdOf(j))
IdsAreDigitText == \A i \in Records : IdOf(i).t = "str" /\ PyIsDigit(IdOf(i).s)
(* a step keeps the ID of every record it keeps *)
IdsKept ==
    \A i \in Records : i <= Len(students') => students'[i].val["ID"] = students[i].val["ID"]

(* C1: from an empty store, under add and update, no two records ever     *)
(* share an ID, every stored ID is text made of digits only, every record  *)
(* stays, and no step changes the ID of a record.                          *)
C1_UniqueIds ==
    /\ [](IdsDiffer /\ IdsAreDigitText)
    /\ [][Len(students') >= Len(students) /\ IdsKept]_vars

(* C1: two records are stored and an update of one of them has completed *)
C1_Witness == Len(students) = 2 /\ msg = "student_updated" /\ IdOf(1) # IdOf(2)

RollOf(i) == students[i].val["Roll Number"]
(* two stored values are one value: equal as Python compares them, or the  *)
(* same float, NaN included, which Python's == sets apart from itself      *)
SameValue(a, b) == PyEq(a, b) \/ a = b
RollsDiffer ==
    \A i, j \in Records :
        (i # j /\ Has(students[i], "Roll Number") /\ Has(students[j], "Roll Number"))
            => ~SameValue(RollOf(i), RollOf(j))

(* C2: from an empty store whose schema has a Roll Number column, under    *)
(* add and update, every record has a Roll Number and no two records ever  *)
(* hold the same Roll Number value, also while an update is between two    *)
(* prompts.                                                                *)
C2_UniqueRollNumbers ==
    "Roll Number" \in Range(columns) =>
        /\ \A i \in Records : Has(students[i], "Roll Number")
        /\ RollsDiffer

(* no two records hold Roll Numbers that Python's == finds equal: the      *)
(* test _check_unique_roll_number makes                                    *)
RollNumbersNeverCompareEqual ==
    "Roll Number" \in Range(columns) =>
        /\ \A i \in Records : Has(students[i], "Roll Number")
        /\ \A i, j \in Records : i # j => ~PyEq(RollOf(i), RollOf(j))

(* C2: with two records stored, an update has just refused the Roll Number *)
(* of the other record                                                     *)
C2_Witness ==
    /\ Len(students) = 2
    /\ pc = "update_field"
    /\ msg = "roll_exists"
    /\ \E i \in Records : i # loc.student /\ line = PyStr(RollOf(i))

(* the validator accepts the stored value v of field key as it stands *)
Accepted(key, v) ==
    LET r == validate_input(key, PyStr(v), TypeOf(column_types, key))
    IN  r.ok /\ r.value = v

(* C4: between operations, after adds and updates, every stored value of   *)
(* a field other than ID is one the validator accepts for the field's name *)
(* and declared type.                                                      *)
C4_StoredValuesValid ==
    AtMenu =>
        \A i \in Records :
            \A key \in Range(students[i].keys) \ {"ID"} : Accepted(key, students[i].val[key])

FieldNames(i) == Range(students[i].keys) \ {"ID"}
ColumnOpCompleted == AtMenu /\ msg \in {"column_added", "column_deleted", "column_replaced"}

(* C3: when add_column, delete_column or replace_column has completed,     *)
(* every record's set of field names other than ID is exactly the set of   *)
(* column names.                                                           *)
C3_FieldsMatchColumns ==
    ColumnOpCompleted => \A i \in Records : FieldNames(i) = Range(columns)

ColumnPrompts ==
    {"addcol_name", "addcol_position", "addcol_index", "addcol_type", "addcol_value",
     "delcol_choice", "delcol_confirm",
     "repcol_choice", "repcol_name", "repcol_change", "repcol_type", "repcol_confirm",
     "repcol_value"}

ColumnStepKeepsIds ==
    pc \in ColumnPrompts => (Len(students') = Len(students) /\ IdsKept)

(* C5: under every operation of the menu no two records ever share an ID,  *)
(* and no step of add_column, delete_column or replace_column changes the  *)
(* value or the type of a record's ID.                                     *)
C5_IdsUniqueAndKept ==
    /\ []IdsDiffer
    /\ [][ColumnStepKeepsIds]_vars

(* C6: between operations, whenever the schema has a column named Roll     *)
(* Number, no two records hold equal Roll Number values.                   *)
C6_RollNumbersUnique ==
    (AtMenu /\ "Roll Number" \in Range(columns)) => RollsDiffer

(* the field names of the record in file row r, the ID apart *)
RowFieldNames(r) == Range(file.rows[r][2].doc.keys) \ {"ID"}
HeaderColumns == Range(file.rows[1][2].doc.keys) \ {"ID"}
(* every record of the file has the fields of the file's column list *)
FileWhole ==
    file.exists => \A r \in 2..Len(file.rows) : RowFieldNames(r) = HeaderColumns

(* a step of a column operation writes the file only as its last act, with *)
(* the whole store, and only once in the operation                         *)
ColumnStepWrites ==
    pc \in ColumnPrompts =>
        IF pc' = "menu" /\ msg' \in {"column_added", "column_deleted", "column_replaced"}
        THEN nsaves = 0 /\ nsaves' = 1 /\ file' = save_data(columns', students')
        ELSE nsaves' = nsaves /\ file' = file

(* C7: add_column, delete_column and replace_column write the file exactly *)
(* once, as their last act and with the whole changed store; a step that   *)
(* does not complete the operation, end of input included, leaves the file *)
(* as it was; and the file never holds records whose fields differ from    *)
(* its column list.                                                        *)
C7_ColumnOpsWriteOnceWhole ==
    /\ []FileWhole
    /\ [](ColumnOpCompleted => nsaves = 1)
    /\ [][ColumnStepWrites]_vars

(* C7: end of input has interrupted the value prompts of a column          *)
(* operation after the first of two records was changed in memory          *)
C7_Witness ==
    /\ ~running
    /\ pc \in {"addcol_value", "repcol_value"}
    /\ Len(students) = 2
    /\ loc.k = 2
    /\ file # save_data(columns, students)

SameFields(a, b) ==
    /\ Range(a.keys) = Range(b.keys)
    /\ \A key \in Range(a.keys) : a.val[key] = b.val[key]

FailureMessages ==
    {"cancelled", "protected", "student_not_found", "column_exists", "empty_name",
     "invalid_choice", "invalid_number", "out_of_range", "invalid_value", "invalid_type",
     "id_not_numeric", "id_exists", "roll_exists", "no_file", "no_columns", "eof"}

FailedStepWritesNothing == msg' \in FailureMessages => file' = file

(* C8: between operations, loading the file yields exactly the column list *)
(* and the records held in memory; a step that fails or cancels leaves the *)
(* file as it was.                                                         *)
C8_FileIsMemory ==
    /\ []((AtMenu /\ file.exists) =>
            /\ NewManager(file).columns = columns
            /\ NewManager(file).students = students)
    /\ [][FailedStepWritesNothing]_vars

(* C9: between operations, saving the store and loading the file into a    *)
(* fresh store gives the same column names in the same order and the same  *)
(* records in the same order with the same fields and values, RollNo read  *)
(* as Roll Number.                                                         *)
C9_RoundTrip ==
    AtMenu =>
        LET fresh == NewManager(save_data(columns, students)) IN
        /\ fresh.columns = FixColumns(columns)
        /\ Len(fresh.students) = Len(students)
        /\ \A i \in Records : SameFields(fresh.students[i], FixRecord(students[i]))

(* the column picked by the number just read at the delete_column prompt *)
PickedNumber == PyIntOk(line') /\ 1 <= PyInt(line') /\ PyInt(line') <= Len(columns)
StoreUntouched ==
    /\ UNCHANGED <<columns, column_types, students, file>>
    /\ nsaves' = nsaves
(* column c is gone from the column list, the types and every record, the  *)
(* rest is as it was, and the file holds the new store                     *)
ColumnRemoved(c) ==
    /\ c \notin Range(columns')
    /\ Len(columns') = Len(columns) - 1
    /\ \A i, j \in 1..Len(columns) :
          (i < j /\ columns[i] # c /\ columns[j] # c) =>
              \E m, n \in 1..Len(columns') : m < n /\ columns'[m] = columns[i] /\ columns'[n] = columns[j]
    /\ DOMAIN column_types' = DOMAIN column_types \ {c}
    /\ \A key \in DOMAIN column_types' : column_types'[key] = column_types[key]
    /\ Len(students') = Len(students)
    /\ \A i \in Records :
          /\ Range(students'[i].keys) = Range(students[i].keys) \ {c}
          /\ \A key \in Range(students'[i].keys) : students'[i].val[key] = students[i].val[key]
    /\ file' = save_data(columns', students')
    /\ nsaves' = nsaves + 1

ProtectedPickRefused ==
    (pc = "delcol_choice" /\ line' # EOF /\ PickedNumber
        /\ columns[PyInt(line')] \in {"ID", "Roll Number"})
    => (StoreUntouched /\ pc' = "delcol_choice" /\ msg' = "protected")

OtherPickAsksToConfirm ==
    (pc = "delcol_choice" /\ line' # EOF /\ PickedNumber
        /\ columns[PyInt(line')] \notin {"ID", "Roll Number"})
    => (StoreUntouched /\ pc' = "delcol_confirm"
            /\ loc'.column_to_delete = columns[PyInt(line')])

ConfirmedPickRemoved ==
    (pc = "delcol_confirm" /\ line' # EOF) =>
        IF line' \in {"y", "Y"} THEN ColumnRemoved(loc.column_to_delete)
        ELSE StoreUntouched /\ msg' = "cancelled"

(* C10: delete_column refuses ID and Roll Number, changing and writing     *)
(* nothing; any other current column, once picked and confirmed with y,    *)
(* leaves the column list, the declared types and every record, and the    *)
(* store is saved; any other answer changes and writes nothing.            *)
C10_DeleteColumn ==
    [][ProtectedPickRefused /\ OtherPickAsksToConfirm /\ ConfirmedPickRemoved]_vars

(* C10: with a record stored, delete_column has just refused the pick of a *)
(* protected column                                                        *)
C10_Witness ==
    /\ pc = "delcol_choice"
    /\ msg = "protected"
    /\ Len(students) >= 1
    /\ PyIntOk(line) /\ columns[PyInt(line)] \in {"ID", "Roll Number"}

PickedColumnRemoved ==
    (pc = "delcol_confirm" /\ line' # EOF) => ColumnRemoved(loc.column_to_delete)

(* C10 as stated: a protected pick changes nothing, and every other pick   *)
(* ends with the column removed and the store saved.                       *)
C10_AsStated ==
    [][ProtectedPickRefused /\ PickedColumnRemoved]_vars

(* C11: between operations, once the schema is set up, the column list     *)
(* still holds the roll-number column, under the name replace_column last  *)
(* gave it, and every record holds a value for it.                         *)
C11_RollColumnKept ==
    (AtMenu /\ file.exists) =>
        /\ roll_column \in Range(columns)
        /\ \A i \in Records : Has(students[i], roll_column)

(* C12: in every state every declared type of the schema is 'int', 'float' *)
(* or 'str'.                                                               *)
C12_DeclaredTypesKnown ==
    \A c \in DOMAIN column_types : column_types[c] \in {"int", "float", "str"}

ReadAt(p) == pc = p /\ line' # EOF
(* the line just read at the column prompt of replace_column is the number *)
(* of a current column                                                     *)
PicksColumn == PyIntOk(line') /\ 1 <= PyInt(line') /\ PyInt(line') <= Len(columns)

ReplaceRefusesId ==
    (ReadAt("repcol_choice") /\ PicksColumn /\ columns[PyInt(line')] = "ID")
        => (StoreUntouched /\ msg' = "protected" /\ pc' = "repcol_choice")
ReplaceRefusesOtherNumber ==
    (ReadAt("repcol_choice") /\ ~PicksColumn)
        => (StoreUntouched /\ pc' \in {"repcol_choice", "menu"})
ReplaceRefusesEmptyName ==
    (ReadAt("repcol_name") /\ PyStrip(line') = "")
        => (StoreUntouched /\ pc' = "menu" /\ msg' = "empty_name")
ReplaceRefusesExistingName ==
    (ReadAt("repcol_name") /\ line' \in Range(columns))
        => (StoreUntouched /\ msg' = "column_exists" /\ pc' = "repcol_choice")
ReplaceDeclined ==
    (ReadAt("repcol_confirm") /\ line' \notin {"y", "Y"})
        => (StoreUntouched /\ pc' = "menu" /\ msg' = "cancelled")

(* C13: replace_column leaves the column list, the declared types, every   *)
(* record and the file as they were when the column picked is ID, when the *)
(* number read picks no current column, when the new name is blank, when   *)
(* the new name is a current column name, and when the confirmation is     *)
(* answered with anything but y.                                           *)
C13_ReplaceFailsClean ==
    [][/\ ReplaceRefusesId
       /\ ReplaceRefusesOtherNumber
       /\ ReplaceRefusesEmptyName
       /\ ReplaceRefusesExistingName
       /\ ReplaceDeclined]_vars

(* C13: with a record stored, replace_column has just refused a new name   *)
(* that is a current column name                                           *)
C13_Witness ==
    /\ pc = "repcol_choice" /\ msg = "column_exists"
    /\ line \in Range(columns)
    /\ Len(students) >= 1
    /\ file = save_data(columns, students)

(* replace_column with the declared type kept: the step that confirms it   *)
(* moves every record's value, as it is, from the old name to the new one  *)
ReplaceCarriesValues ==
    (ReadAt("repcol_confirm") /\ line' \in {"y", "Y"} /\ loc.current_type = loc.new_type)
    => /\ msg' = "column_replaced"
       /\ Len(students') = Len(students)
       /\ \A i \in Records :
            Has(students[i], loc.column_to_replace) =>
                /\ Has(students'[i], loc.new_column_name)
                /\ students'[i].val[loc.new_column_name] = students[i].val[loc.column_to_replace]
                /\ ~Has(students'[i], loc.column_to_replace)

(* replace_column with a new declared type: a step at the value prompt     *)
(* either refuses the line or stores, under the new name, the value the    *)
(* validator returns for that line, the new name and the new type          *)
ReplaceStoresEnteredValue ==
    ReadAt("repcol_value") =>
        LET r == validate_input(loc.new_column_name, PyStrip(line'), loc.new_type) IN
        IF ~r.ok THEN students' = students /\ pc' = "repcol_value"
        ELSE /\ Has(students'[loc.k], loc.new_column_name)
             /\ students'[loc.k].val[loc.new_column_name] = r.value
             /\ ~Has(students'[loc.k], loc.column_to_replace)

(* when replace_column completes, every record holds the new name and none *)
(* holds the old one; after a change of type every value under the new     *)
(* name is one the validator accepts for the new name and the new type     *)
ReplaceEndsWithNewFieldOnly ==
    (pc \in {"repcol_confirm", "repcol_value"} /\ msg' = "column_replaced")
    => \A i \in 1..Len(students') :
            /\ Has(students'[i], loc.new_column_name)
            /\ ~Has(students'[i], loc.column_to_replace)
            /\ (loc.current_type # loc.new_type) =>
                  validate_input(loc.new_column_name,
                                 PyStr(students'[i].val[loc.new_column_name]),
                                 loc.new_type).ok

(* C14: a replace_column that keeps the declared type carries every        *)
(* record's value over unchanged under the new name; one that changes the  *)
(* type stores for every record a value read at the prompt and accepted by *)
(* the validator for the new name and type; either way no record keeps the *)
(* old field name.                                                         *)
C14_ReplaceMovesValues ==
    [][ReplaceCarriesValues /\ ReplaceStoresEnteredValue /\ ReplaceEndsWithNewFieldOnly]_vars

(* C14: a replace_column that changed the declared type has completed for  *)
(* two records, the last value read at its value prompt                    *)
C14_Witness ==
    /\ AtMenu /\ msg = "column_replaced"
    /\ line \notin {"y", "Y"}
    /\ Len(students) = 2

AddRefusesBlankName ==
    (ReadAt("addcol_name") /\ PyStrip(line') = "")
        => (StoreUntouched /\ pc' = "menu" /\ msg' = "empty_name")
AddRefusesExistingName ==
    (ReadAt("addcol_name") /\ line' \in Range(columns))
        => (StoreUntouched /\ pc' = "menu" /\ msg' = "column_exists")

(* C15: add_column ends at once, with the column list, the declared types, *)
(* every record and the file as they were, when the name read is empty or  *)
(* blank or is a current column name.                                      *)
C15_AddColumnFailsClean ==
    [][AddRefusesBlankName /\ AddRefusesExistingName]_vars

(* C15: with a record stored, add_column has just refused a name that is a *)
(* current column name                                                     *)
C15_Witness ==
    /\ AtMenu /\ msg = "column_exists"
    /\ line \in Range(columns)
    /\ Len(students) >= 1
    /\ file = save_data(columns, students)

(* the column list after the step is the one before it with name put at    *)
(* position p: one longer, the other names in the order they had           *)
InsertedAt(p, name) ==
    /\ Len(columns') = Len(columns) + 1
    /\ columns'[p] = name
    /\ \A j \in 1..Len(columns) :
          IF j < p THEN columns'[j] = columns[j] ELSE columns'[j + 1] = columns[j]

AddColumnPlaces ==
    ReadAt("addcol_position") =>
        CASE line' = "1" -> InsertedAt(1, loc.new_column)
          [] line' = "2" -> InsertedAt(Len(columns) + 1, loc.new_column)
          [] line' = "3" ->
                IF Len(columns) > 0 THEN columns' = columns /\ pc' = "addcol_index"
                ELSE InsertedAt(1, loc.new_column)
          [] OTHER -> columns' = columns /\ pc' = "addcol_position"

AddColumnPlacesAtIndex ==
    ReadAt("addcol_index") =>
        IF PyIntOk(line') /\ 1 <= PyInt(line') /\ PyInt(line') <= Len(columns) + 1
        THEN InsertedAt(PyInt(line'), loc.new_column) /\ pc' \in {"addcol_type"}
        ELSE columns' = columns /\ pc' = "addcol_index"

AddColumnThenKeepsList ==
    (pc \in {"addcol_name", "addcol_type", "addcol_value"}) => columns' = columns

(* C16: add_column puts the new name first for 'start', last for 'end' and *)
(* at the 1-based index p for 'index', accepting only p from 1 to the      *)
(* number of columns plus one; the column list grows by that one name, the *)
(* other names keep their order, and no other step of add_column changes   *)
(* the list.                                                               *)
C16_AddColumnPosition ==
    [][AddColumnPlaces /\ AddColumnPlacesAtIndex /\ AddColumnThenKeepsList]_vars

(* C16: with a record stored, add_column has put the new name between two  *)
(* columns, which only the index choice does                               *)
C16_Witness ==
    /\ pc = "addcol_type"
    /\ Len(columns) = 3 /\ columns[2] = loc.new_column
    /\ line = "2"
    /\ Len(students) >= 1

(* the records whose ID is the text just read *)
RecordsWithIdRead == {i \in Records : PyEq(IdOf(i), StrV(line'))}
SchemaKept == columns' = columns /\ column_types' = column_types
(* record k is gone; the others are as they were, in the order they had *)
RecordRemoved(k) ==
    /\ Len(students') = Len(students) - 1
    /\ \A j \in Records :
          /\ j < k => students'[j] = students[j]
          /\ j > k => students'[j - 1] = students[j]

DeleteStep ==
    ReadAt("delete_id") =>
        IF RecordsWithIdRead = {}
        THEN StoreUntouched /\ pc' = "menu" /\ msg' = "student_not_found"
        ELSE /\ \E k \in RecordsWithIdRead : RecordRemoved(k)
             /\ SchemaKept
             /\ file' = save_data(columns', students')
             /\ nsaves' = nsaves + 1
             /\ pc' = "menu" /\ msg' = "student_deleted"

(* C17: delete with an ID no record has leaves the store and the file as   *)
(* they were; otherwise one record with that ID is removed and no other,   *)
(* the remaining records keep their values and order, the schema is kept   *)
(* and the store is saved.                                                 *)
C17_DeleteRemovesOne ==
    [][DeleteStep]_vars

(* C17: a record has just been deleted and another one, the only one       *)
(* left, is still stored                                                   *)
C17_Witness ==
    /\ AtMenu /\ msg = "student_deleted"
    /\ Len(students) = 1 /\ IdOf(1) # StrV(line)
    /\ file = save_data(columns, students)

Persisted == file' = save_data(columns', students') /\ nsaves' = nsaves + 1
FileKept == file' = file /\ nsaves' = nsaves

UpdateFindsRecord ==
    ReadAt("update_id") =>
        IF RecordsWithIdRead = {}
        THEN StoreUntouched /\ pc' = "menu" /\ msg' = "student_not_found"
        ELSE /\ students' = students /\ SchemaKept
             /\ IF pc' = "update_field"
                THEN loc'.student \in RecordsWithIdRead /\ FileKept
                ELSE pc' = "menu" /\ msg' = "student_updated" /\ Persisted

UpdateChangesOneRecord ==
    ReadAt("update_field") =>
        /\ Len(students') = Len(students)
        /\ \A i \in Records : i # loc.student => students'[i] = students[i]
        /\ students'[loc.student].val["ID"] = students[loc.student].val["ID"]
        /\ students'[loc.student].keys = students[loc.student].keys
        /\ SchemaKept
        /\ IF msg' = "student_updated" THEN pc' = "menu" /\ Persisted
           ELSE pc' = "update_field" /\ loc'.student = loc.student /\ FileKept

(* C18: update with an ID no record has leaves the store and the file as   *)
(* they were; otherwise every step changes at most the record found, whose *)
(* ID and field names stay, the number and order of the records and the    *)
(* schema stay, and the step that completes the update saves the store.    *)
C18_UpdateChangesOne ==
    [][UpdateFindsRecord /\ UpdateChangesOneRecord]_vars

(* C18: after a column operation, an update of one of two records has      *)
(* completed with the value just read stored in a record                   *)
C18_Witness ==
    /\ AtMenu /\ msg = "student_updated"
    /\ Len(students) = 2 /\ nschema >= 1
    /\ \E i \in Records : \E key \in FieldNames(i) : PyStr(students[i].val[key]) = line
    /\ file = save_data(columns, students)

FileRecords == 2..Len(file.rows)
(* row 1 of the file is "Columns" and the JSON array of the column names *)
HeaderRowOf(cols) ==
    /\ Len(file.rows[1]) = 2
    /\ file.rows[1][1] = [k |-> "text", text |-> "Columns", doc |-> <<>>]
    /\ file.rows[1][2].k = "json"
    /\ file.rows[1][2].doc.j = "array"
    /\ file.rows[1][2].doc.keys = cols
(* the JSON text of a stored value: a string, or the number as Python      *)
(* prints it                                                               *)
JsonOf(v) ==
    IF v.t = "str" THEN [j |-> "string", lit |-> v.s]
    ELSE IF v.t = "none" THEN [j |-> "null", lit |-> "null"]
    ELSE IF v.t = "bool" THEN [j |-> IF v.n = 1 THEN "true" ELSE "false",
                               lit |-> IF v.n = 1 THEN "true" ELSE "false"]
    ELSE [j |-> "number",
          lit |-> IF v.t = "float" /\ v.s = "nan" THEN "NaN"
                  ELSE IF v.t = "float" /\ v.s = "inf"
                  THEN (IF v.n < 0 THEN "-Infinity" ELSE "Infinity")
                  ELSE PyStr(v)]
(* row r of the file is the ID of record data and the JSON object of the   *)
(* fields named by names, in that order                                    *)
RecordRowOf(r, data, names) ==
    /\ Len(file.rows[r]) = 2
    /\ file.rows[r][1] = [k |-> "text", text |-> PyStr(data.val["ID"]), doc |-> <<>>]
    /\ file.rows[r][2].k = "json"
    /\ file.rows[r][2].doc.j = "object"
    /\ file.rows[r][2].doc.keys = names
    /\ \A key \in Range(names) : file.rows[r][2].doc.val[key] = JsonOf(data.val[key])
WithoutId(names) == SelectSeq(names, LAMBDA n : n # "ID")

(* C19: between operations the file is one row ["Columns", JSON array of   *)
(* the column names in schema order] followed, record by record, by the    *)
(* row of the record's ID and the JSON object of all the record's fields   *)
(* in their order, the ID among them.                                      *)
C19_FileLayout ==
    (AtMenu /\ file.exists) =>
        /\ Len(file.rows) = Len(students) + 1
        /\ HeaderRowOf(columns)
        /\ \A i \in Records :
              /\ RecordRowOf(i + 1, students[i], students[i].keys)
              /\ "ID" \in Range(file.rows[i + 1][2].doc.keys)

(* C19: the file holds two records, one of them saved after a column       *)
(* operation gave it a new field                                           *)
C19_Witness ==
    /\ AtMenu /\ file.exists
    /\ Len(file.rows) = 3
    /\ msg = "column_added"
    /\ Len(file.rows[2][2].doc.keys) >= 3

(* C19 as stated: the JSON object of a record row holds the record's       *)
(* fields without the ID.                                                  *)
C19_AsStated ==
    (AtMenu /\ file.exists) =>
        /\ Len(file.rows) = Len(students) + 1
        /\ HeaderRowOf(columns)
        /\ \A i \in Records :
              /\ RecordRowOf(i + 1, students[i], WithoutId(students[i].keys))
              /\ "ID" \notin Range(file.rows[i + 1][2].doc.keys)

(* Loading a stored file *)
StoredRecords == 2..Len(file.rows)
Loaded == pc = "menu" /\ mode = "load"
(* the file has a header row of two fields *)
HeaderRead == file.exists /\ file.rows # <<>> /\ Len(file.rows[1]) > 1
(* its second field is a JSON array: json.loads gives a list *)
HeaderIsList == IsJson(file.rows[1][2]) /\ file.rows[1][2].doc.j = "array"
MalformedJson(r) == Len(file.rows[r]) = 2 /\ file.rows[r][2].k = "text"
WellFormed(r) ==
    /\ Len(file.rows[r]) = 2
    /\ file.rows[r][2].k = "json"
    /\ file.rows[r][2].doc.j = "object"
(* the stored rows that are well-formed records, in file order *)
WellFormedRows == SelectSeq([i \in 1..Len(file.rows) - 1 |-> i + 1], WellFormed)
(* the Record row r of the file decodes to: its ID from the first cell,    *)
(* its other fields from the JSON object                                   *)
IsRecordOfRow(data, r) ==
    /\ data.val["ID"] = StrV(file.rows[r][1].text)
    /\ \A key \in Range(file.rows[r][2].doc.keys) \ {"ID", "RollNo"} :
          Has(data, key) /\ JsonOf(data.val[key]) = file.rows[r][2].doc.val[key]
LoadedAre(rws) ==
    /\ Len(students) = Len(rws)
    /\ \A i \in 1..Len(rws) : IsRecordOfRow(students[i], rws[i])

(* C20: after loading a file whose header holds a column list and which    *)
(* holds a record with malformed embedded JSON, the Records are exactly    *)
(* the well-formed records of the file, in file order: the malformed one   *)
(* gave no Record and every well-formed one before and after it was        *)
(* loaded.                                                                 *)
C20_MalformedJsonSkipped ==
    (Loaded /\ HeaderRead /\ HeaderIsList /\ \E r \in StoredRecords : MalformedJson(r))
        => LoadedAre(WellFormedRows)

(* in a file whose header holds a list and whose rows are all well-formed  *)
(* records with no field named self, malformed JSON or blank, the same     *)
(* holds                                                                   *)
MalformedJsonAloneIsSkipped ==
    (/\ Loaded
     /\ HeaderRead
     /\ HeaderIsList
     /\ \E r \in StoredRecords : MalformedJson(r)
     /\ \A r \in StoredRecords :
           \/ MalformedJson(r)
           \/ WellFormed(r) /\ "self" \notin Range(file.rows[r][2].doc.keys)
           \/ file.rows[r] = <<>>)
        => LoadedAre(WellFormedRows)
MalformedJsonBetweenRecords ==
    /\ Loaded
    /\ HeaderRead
    /\ Len(file.rows) = 4
    /\ WellFormed(2) /\ MalformedJson(3) /\ WellFormed(4)
    /\ LoadedAre(<<2, 4>>)

(* C21: after loading a file whose header holds a column list, the Records *)
(* are the well-formed records of the file in file order, whatever rows    *)
(* the file holds: a row that does not have two fields, or whose JSON is   *)
(* no object, is skipped alone and the records after it are loaded.        *)
C21_BadRowSkippedAlone ==
    (Loaded /\ HeaderRead /\ HeaderIsList) => LoadedAre(WellFormedRows)

(* Loading a file that is missing or has a short header *)
ShortHeader == file.exists /\ file.rows # <<>> /\ Len(file.rows[1]) < 2
StoreEmpty == columns = <<>> /\ students = <<>>
(* change_file_path has just switched to the file at new_file_path *)
PathSwitched ==
    /\ pc \in {"path_default", "setup_choice"}
    /\ line # EOF
    /\ loc.new_file_path = file_path
    /\ msg = IF pc = "path_default" THEN "path_changed" ELSE ""
    /\ nsaves = 1

(* C22: after the program is constructed on a missing file or on a file    *)
(* whose header has fewer than two fields, and after change_file_path has  *)
(* switched to such a file, the Schema is empty and there are no Records.  *)
C22_BadFileLoadsEmpty ==
    /\ (Loaded /\ (~file.exists \/ ShortHeader)) => StoreEmpty
    /\ (PathSwitched /\ (~file.exists \/ ShortHeader)) => StoreEmpty

(* the part of C22 about construction *)
ConstructedOnBadFileIsEmpty ==
    (Loaded /\ (~file.exists \/ ShortHeader)) => StoreEmpty
ConstructedOnShortHeader == Loaded /\ ShortHeader /\ Len(file.rows) >= 2 /\ StoreEmpty

(* Loading a file of the older spelling *)
HeaderNames == file.rows[1][2].doc.keys
Legacy(names) == "RollNo" \in Range(names) /\ "Roll Number" \notin Range(names)
(* the JSON object of the row that Record i was loaded from: loading ends   *)
(* at a row it cannot decode, so the Records are the first of the           *)
(* well-formed rows                                                         *)
StoredObject(i) == file.rows[WellFormedRows[i]][2].doc
ColumnsNormalized ==
    /\ Len(columns) = Len(HeaderNames)
    /\ \A p \in 1..Len(columns) :
          columns[p] = IF Legacy(HeaderNames) /\ HeaderNames[p] = "RollNo"
                       THEN "Roll Number" ELSE HeaderNames[p]
RecordNormalized(i) ==
    Legacy(StoredObject(i).keys) =>
        /\ ~Has(students[i], "RollNo")
        /\ Has(students[i], "Roll Number")
        /\ JsonOf(students[i].val["Roll Number"]) = StoredObject(i).val["RollNo"]

(* C23: after loading a file with a header of two fields, a header that     *)
(* holds a list with RollNo and no Roll Number is the Schema with Roll      *)
(* Number at the place of RollNo, and every Record loaded from an object    *)
(* with a RollNo and no Roll Number field holds that value under Roll       *)
(* Number and has no RollNo field.                                          *)
C23_LegacySpellingNormalized ==
    (Loaded /\ HeaderRead) =>
        /\ HeaderIsList => ColumnsNormalized
        /\ Len(students) <= Len(WellFormedRows)
        /\ \A i \in Records : IsRecordOfRow(students[i], WellFormedRows[i]) /\ RecordNormalized(i)

(* C23: a file with the header ["GPA", "RollNo"] and a record holding       *)
(* RollNo was loaded                                                        *)
C23_Witness ==
    /\ Loaded /\ HeaderRead /\ HeaderIsList
    /\ Legacy(HeaderNames)
    /\ columns = <<"GPA", "Roll Number">>
    /\ \E i \in Records :
          /\ Legacy(StoredObject(i).keys)
          /\ students[i].val["Roll Number"] = IntV("30")

(* End of input *)
AllPrompts == {"menu", "setup_choice", "setup_name", "setup_type", "add_id", "add_field",
               "update_id", "update_field", "delete_id", "addcol_name", "addcol_position",
               "addcol_index", "addcol_type", "addcol_value", "delcol_choice",
               "delcol_confirm", "repcol_choice", "repcol_name", "repcol_change",
               "repcol_type", "repcol_confirm", "repcol_value"} \cup ChangePathPrompts
(* the step at which input() meets the end of input ends the run loop and   *)
(* writes nothing                                                           *)
EndOfInputEndsRun ==
    line' = EOF =>
        /\ pc \in AllPrompts
        /\ ~running'
        /\ UNCHANGED <<columns, column_types, students, fs, file_path, nsaves, nops>>
(* the program takes no step once the run loop has ended *)
NoStepAfterTheEnd == running

(* C24: when input ends at a prompt, whichever it is, the run loop ends at  *)
(* that step, the step writes nothing, and afterwards no operation is       *)
(* carried out and no file changes.                                         *)
C24_EndOfInputTerminates ==
    /\ [](line = EOF => ~running)
    /\ [][EndOfInputEndsRun /\ NoStepAfterTheEnd]_vars

(* the prompts of the schema setup that add_student started *)
InSetupOfAdd == pc \in {"setup_choice", "setup_name", "setup_type"} /\ loc.new_file_path = ""
(* what holds of the end of input: at every prompt it changes no file and   *)
(* no part of the store, and at every prompt but those of the schema setup  *)
(* that add_student started it ends the run loop; no step follows the end   *)
(* of the loop                                                              *)
EndOfInputOutsideSetupOfAdd ==
    [][/\ line' = EOF =>
              /\ pc \in AllPrompts \cup {"main_create"}
              /\ UNCHANGED <<columns, column_types, students, fs, file_path, nsaves, nops>>
              /\ running' = InSetupOfAdd
       /\ NoStepAfterTheEnd]_vars
(* input ended in the schema setup that add_student started, and the        *)
(* program is at the menu with the run loop going on                        *)
EndOfInputCaught == line = EOF /\ running /\ pc = "menu" /\ msg = "setup_failed"

(* C25: no column name occurs twice in the Schema, in any state that setup, *)
(* add_column, delete_column and replace_column lead to.                    *)
C25_ColumnNamesUnique ==
    \A i, j \in 1..Len(columns) : columns[i] = columns[j] => i = j

(* C25: a Schema of three columns, after replace_column refused a name      *)
(* that another column has                                                  *)
C25_Witness ==
    /\ Len(columns) = 3
    /\ nschema = 2
    /\ pc = "repcol_choice" /\ msg = "column_exists"

(* validate_input as a function *)
Validated == pc \in {"validated", "validated_again"}

(* C26: when validate accepts a text for a field name and a type, it also   *)
(* accepts the text form of the value it returned, for the same name and    *)
(* type, and returns the same value.                                        *)
C26_ValidateIdempotent ==
    pc = "validated_again" => loc.again.ok /\ loc.again.value = loc.result.value

(* C26: a float was accepted from a text that is not the text form of its   *)
(* value, and the text form gave the same float                             *)
C26_Witness ==
    /\ pc = "validated_again"
    /\ loc.expected_type = "float"
    /\ loc.user_input = "2.50"
    /\ PyStr(loc.result.value) = "2.5"
    /\ loc.again = loc.result

(* The roll number rule *)
(* every character is a decimal digit, of whichever script *)
OnlyDecimalDigits(text) == \A c \in Range(PyChars(text)) : IsDecimalChar(c)
(* the digits of the number a digit text denotes, as ASCII digits: the text *)
(* from its first digit that is not 0, "" for zero                          *)
Significant(text) ==
    LET ascii == ToAscii(text)
        from == {i \in 1..Len(ascii) : Char(ascii, i) # "0"}
    IN  IF from = {} THEN ""
        ELSE SubSeq(ascii, CHOOSE i \in from : \A j \in from : i <= j, Len(ascii))
RollNumberAsInt ==
    Validated /\ PyLower(loc.column_name) = "roll number" /\ loc.expected_type = "int"

(* C27: for a field named roll number in any case and the type int,         *)
(* validate accepts a text exactly when it is not empty, has only decimal   *)
(* digits (of any script), at most 4300 of them, and denotes a number of    *)
(* at least 1 that has at most 10 digits; the result is that number.        *)
C27_RollNumberRule ==
    RollNumberAsInt =>
        /\ loc.result.ok <=>
              /\ loc.user_input # ""
              /\ OnlyDecimalDigits(loc.user_input)
              /\ PyLen(loc.user_input) <= IntMaxStrDigits
              /\ Significant(loc.user_input) # ""
              /\ Len(Significant(loc.user_input)) <= 10
        /\ loc.result.ok =>
              /\ loc.result.value.t = "int"
              /\ PyStr(loc.result.value) = Significant(loc.user_input)

(* C27: a text of eleven digits that denotes 1 was accepted as the roll     *)
(* number 1                                                                 *)
C27_Witness ==
    /\ RollNumberAsInt
    /\ loc.user_input = "00000000001"
    /\ loc.result.ok
    /\ PyStr(loc.result.value) = "1"

(* C27 as stated: the limit of 10 digits is on the text itself.             *)
C27_AsStated ==
    RollNumberAsInt =>
        /\ loc.result.ok <=>
              /\ loc.user_input # ""
              /\ OnlyDecimalDigits(loc.user_input)
              /\ PyLen(loc.user_input) <= 10
              /\ Significant(loc.user_input) # ""
        /\ loc.result.ok =>
              /\ loc.result.value.t = "int"
              /\ PyStr(loc.result.value) = Significant(loc.user_input)

(* C28: between operations, a program started on the file as it is now      *)
(* would hold, for every column of the Schema other than ID, the declared  *)
(* type the column has now.                                                 *)
C28_TypesSurviveReload ==
    (AtMenu /\ file.exists) =>
        \A c \in Range(columns) \ {"ID"} :
            TypeOf(NewManager(file).column_types, c) = TypeOf(column_types, c)

(* Value prompts *)
ValuePrompts == {"add_field", "update_field", "addcol_value", "repcol_value"}
(* the column name and the type that get_valid_input is called with at the *)
(* value prompt the program waits at                                        *)
PromptedName ==
    CASE pc = "add_field" -> columns[loc.k]
      [] pc = "update_field" -> "new " \o students[loc.student].keys[loc.k]
      [] pc = "addcol_value" -> loc.new_column
      [] pc = "repcol_value" -> loc.new_column_name
PromptedType ==
    CASE pc = "add_field" -> TypeOf(column_types, columns[loc.k])
      [] pc = "update_field" -> TypeOf(column_types, students[loc.student].keys[loc.k])
      [] pc = "addcol_value" -> column_types[loc.new_column]
      [] pc = "repcol_value" -> loc.new_type
SampleTexts == {"5", "10", "20", "Ann Lee", "a.b@gmail.com", "0123456789", "12 Main Street",
                "10A"}

(* C29: at every value prompt some text is accepted by the validator for    *)
(* the column and the type the prompt asks under.                           *)
C29_ValuePromptSatisfiable ==
    pc \in ValuePrompts =>
        \E text \in SampleTexts : get_valid_input(PromptedName, PromptedType, text).ok

(* at a value prompt whose type is one of the three names, some text is     *)
(* accepted                                                                 *)
KnownTypePromptSatisfiable ==
    (pc \in ValuePrompts /\ PromptedType \in TypeNames) =>
        \E text \in SampleTexts : get_valid_input(PromptedName, PromptedType, text).ok

(* The frame of replace_column *)
ReplaceWrites == pc \in {"repcol_confirm", "repcol_value"} /\ line' # EOF
OtherFieldsKept(i) ==
    /\ students'[i].val["ID"] = students[i].val["ID"]
    /\ \A key \in Range(students[i].keys) \ {loc.column_to_replace, loc.new_column_name} :
          Has(students'[i], key) /\ students'[i].val[key] = students[i].val[key]
ReplaceFrame ==
    /\ Len(columns') = Len(columns)
    /\ \A p \in 1..Len(columns) :
          \/ columns'[p] = columns[p]
          \/ p = loc.column_index + 1 /\ columns'[p] = loc.new_column_name
    /\ msg' = "column_replaced" => columns'[loc.column_index + 1] = loc.new_column_name
    /\ \A c \in Range(columns) \ {loc.column_to_replace, loc.new_column_name} :
          TypeOf(column_types', c) = TypeOf(column_types, c)
    /\ Len(students') = Len(students)
    /\ \A i \in Records : OtherFieldsKept(i)

(* C30: the steps of replace_column that write to the store keep the length *)
(* of the Schema, put the new name where the old one was and nowhere else,  *)
(* keep the declared type of every other column, and keep in every Record   *)
(* the ID and the values of all the other fields.                           *)
C30_ReplaceKeepsTheRest ==
    [][ReplaceWrites => ReplaceFrame]_vars

(* the same when the new name is not ID *)
ReplaceToOtherNameKeepsTheRest ==
    [][(ReplaceWrites /\ loc.new_column_name # "ID") => ReplaceFrame]_vars

(* The step that ends _setup_new_file: the choice '1', or 'done' at the    *)
(* column-name prompt                                                      *)
SetupEnds ==
    /\ pc \in {"setup_choice", "setup_name"}
    /\ pc' \in {"add_id", "path_default"}
    /\ line' # EOF
(* the Schema that the setup has to end with, from the choice made and the *)
(* custom columns entered so far                                           *)
SetupOutcome ==
    IF pc = "setup_choice" \/ loc.custom_columns.keys = <<>>
    THEN default_columns
    ELSE IF Has(loc.custom_columns, "Roll Number")
    THEN loc.custom_columns
    ELSE [keys |-> Append(loc.custom_columns.keys, "Roll Number"),
          val |-> [k \in DOMAIN loc.custom_columns.val \cup {"Roll Number"} |->
                      IF k = "Roll Number" THEN "int" ELSE loc.custom_columns.val[k]]]
(* the header row of the file after the step names the Schema after it     *)
SchemaPersisted ==
    /\ file'.exists
    /\ file'.rows # <<>>
    /\ Len(file'.rows[1]) = 2
    /\ file'.rows[1][1] = [k |-> "text", text |-> "Columns", doc |-> <<>>]
    /\ file'.rows[1][2].k = "json"
    /\ file'.rows[1][2].doc.j = "array"
    /\ file'.rows[1][2].doc.keys = columns'
    /\ nsaves' = nsaves + 1
(* The backing file cannot be opened for writing: one of the names before *)
(* the last on its path is a file.  (The names of a path below the working *)
(* directory, "." and empty names left out.)                               *)
IsName(n) == n \notin {"", "."}
BackingPath == SelectSeq(Names(file_path), IsName)
BackingPathBlocked ==
    \E n \in 1..(Len(BackingPath) - 1) :
        /\ SubSeq(BackingPath, 1, n) \in DOMAIN fs
        /\ ~fs[SubSeq(BackingPath, 1, n)].dir
(* _save_data was called and wrote nothing *)
SaveFailed == nsaves' = nsaves + 1 /\ fs' = fs /\ file_path' = file_path

(* C31, as stated: the step that ends the schema setup of a new backing    *)
(* file leaves a Schema with a Roll Number column and writes it to the     *)
(* file.                                                                   *)
C31_AsStated ==
    [][SetupEnds =>
          /\ "Roll Number" \in Range(columns')
          /\ columns' = SetupOutcome.keys
          /\ column_types' = SetupOutcome.val
          /\ SchemaPersisted]_vars

(* C31: the step that ends the schema setup of a new backing file leaves a *)
(* Schema with a Roll Number column and saves it: the default columns      *)
(* after the choice '1' and after 'done' with no custom column, the custom *)
(* columns as entered when Roll Number is among them, and the custom       *)
(* columns followed by Roll Number of type int when it is not.  The save   *)
(* writes the header row of that Schema to the backing file, unless a     *)
(* name on the backing path is a file: then the file cannot be opened, no  *)
(* file changes and the Schema is in memory only.                          *)
C31_SetupEndsWithRollNumber ==
    [][SetupEnds =>
          /\ "Roll Number" \in Range(columns')
          /\ columns' = SetupOutcome.keys
          /\ column_types' = SetupOutcome.val
          /\ IF BackingPathBlocked THEN SaveFailed ELSE SchemaPersisted]_vars

(* a custom setup without Roll Number has ended at a backing path below a  *)
(* file: the entered column is followed by Roll Number of type int in      *)
(* memory, and there is no backing file                                    *)
C31_Witness ==
    /\ pc = "path_default"
    /\ line = "done"
    /\ file_path = "students.csv/x.csv"
    /\ columns = <<"Age", "Roll Number">>
    /\ column_types["Roll Number"] = "int"
    /\ EntryAt(fs, "students.csv").exists
    /\ ~file.exists
(* a custom setup without Roll Number has ended at a path that can be      *)
(* written: the header row of the file names the entered column and Roll   *)
(* Number                                                                  *)
SetupPersisted ==
    /\ pc = "add_id"
    /\ line = "done"
    /\ columns = <<"Age", "Roll Number">>
    /\ column_types["Roll Number"] = "int"
    /\ HeaderRowOf(columns)

====
